---- MODULE Spec2Model ----
(***************************************************************************)
(* Payroll service (activity_ing): the calculator CalculadoraNomina, the   *)
(* orchestrator NominaService over a relational store reached through      *)
(* SQLAlchemy sessions, and the collaborators that change employees,       *)
(* employee types and periods.                                             *)
(*                                                                         *)
(* Money is counted in cents, percentages in thousandths of a percent      *)
(* (0.522 % = 522), hours in whole hours.                                  *)
(***************************************************************************)
EXTENDS Integers, Sequences, FiniteSets, TLC

(***************************************************************************)
(* Bounds of the model.                                                    *)
(***************************************************************************)
MaxNominas == 2
MaxRecalculos == 2
MaxAniversarios == 1
MaxBulk == 1

NULL == 0 - 1

Sesiones == {"s1", "s2"}
Usuarios == {"ana"}

(***************************************************************************)
(* Enumerations (app/utils/enums.py).                                      *)
(***************************************************************************)
TipoEmpleadoEnum == {"ASALARIADO", "POR_HORAS", "POR_COMISION", "TEMPORAL"}
EstadoEmpleadoEnum == {"ACTIVO", "INACTIVO", "SUSPENDIDO"}
EstadoPeriodoEnum == {"ABIERTO", "EN_PROCESO", "CERRADO", "PAGADO"}

(***************************************************************************)
(* Business constants (app/services/calculadora_nomina.py).                *)
(***************************************************************************)
BONO_ANTIGUEDAD_PORCENTAJE == 10000
anio_PARA_BONO_ANTIGUEDAD == 5
BONO_ALIMENTACION == 100000000
COMISION_VENTAS_LIMITE == 2000000000
BONO_VENTAS_PORCENTAJE == 3000
DEDUCCION_SEGURIDAD_SOCIAL_PENSION == 4000
DEDUCCION_ARL == 522
FONDO_AHORRO_PORCENTAJE == 2000
anio_PARA_FONDO_AHORRO == 1

(***************************************************************************)
(* The employees, employee types and periods the store starts with, and    *)
(* the employee records that exist besides them.  Employee 3 is a row that *)
(* predates chk_tarifa_hora (MySQL before 8.0.16 parses CHECK constraints  *)
(* and ignores them): its tarifa_hora is negative.                         *)
(***************************************************************************)
Empleados == {1, 2}
Periodos == {1}
TiposEmpleado == {1, 2}
Plantilla == 1..8

FichaEmpleado(tipo, estado, salario, tarifa, comision, fondo, anios) ==
    [id_tipo_empleado |-> tipo, estado |-> estado, salario_base |-> salario,
     tarifa_hora |-> tarifa, porcentaje_comision |-> comision,
     acepta_fondo_ahorro |-> fondo, antiguedad |-> anios]

EmpleadoInicial(e) ==
    CASE e = 1 -> FichaEmpleado(1, "ACTIVO", 200000000, 0, 0, FALSE, 4)
      [] e = 2 -> FichaEmpleado(2, "ACTIVO", 0, 2500000, 0, TRUE, 0)
      [] e = 3 -> FichaEmpleado(2, "ACTIVO", 0, 0 - 2500000, 0, FALSE, 0)
      [] e = 4 -> FichaEmpleado(1, "INACTIVO", 200000000, 2500000, 0, FALSE, 6)
      [] e = 5 -> FichaEmpleado(2, "SUSPENDIDO", 100000000, 2500000, 0, TRUE, 2)
      [] e = 6 -> FichaEmpleado(3, "ACTIVO", 200000000, 0, 5000, FALSE, 1)
      [] e = 7 -> FichaEmpleado(4, "ACTIVO", 150000000, 0, 0, FALSE, 0)
      [] OTHER -> FichaEmpleado(5, "ACTIVO", 100000000, 0, 0, FALSE, 3)

\* Empleado.fecha_ingreso: everybody was hired on a 15th of March, and the
\* antiguedad of the catalogue is the one of the 14th of March 2025
FechaIngreso(e) == <<2024 - EmpleadoInicial(e).antiguedad, 3, 15>>

NombreTipoInicial(t) ==
    CASE t = 1 -> "ASALARIADO"
      [] t = 2 -> "POR_HORAS"
      [] t = 3 -> "POR_COMISION"
      [] t = 4 -> "TEMPORAL"
      [] OTHER -> "CONTRATISTA"

\* The variable inputs a caller sends: <<horas_trabajadas, horas_extras, ventas_realizadas>>.
Entradas == {<<160, 0, 0>>}
\* NominaUpdate: every field optional (NULL = not provided).
Actualizaciones ==
    { [horas_trabajadas |-> NULL, horas_extras |-> NULL, ventas_realizadas |-> NULL],
      [horas_trabajadas |-> NULL, horas_extras |-> 10, ventas_realizadas |-> NULL] }

VARIABLES
    empleado,           \* ids of the employee rows that exist
    nombre_tipo,        \* tipo_empleado.nombre_tipo, by id_tipo_empleado
    antiguedad,         \* whole years from fecha_ingreso to date.today(), by employee
    periodo_nomina,     \* periodo_nomina.estado, by id_periodo
    nomina,             \* committed nomina rows, by id_nomina
    detalle_bono,       \* committed rows by id_nomina, in insertion order
    detalle_beneficio,
    detalle_deduccion,
    auditoria_nomina,
    siguiente_id,       \* next autoincrement value of nomina.id_nomina
    pc,                 \* where each session's current call stands
    ctx,                \* the local variables of each session's current call
    res,                \* what the call that ended in the last step returned or raised
    sucio,              \* modified, unflushed nomina attributes in each session
    inactiva,           \* the session's transaction was rolled back by a failed flush
    por_peticion        \* sessions are opened and closed per request (get_db)

tablas == <<nomina, detalle_bono, detalle_beneficio, detalle_deduccion, auditoria_nomina>>
entorno == <<empleado, nombre_tipo, antiguedad, periodo_nomina>>
vars == <<empleado, nombre_tipo, antiguedad, periodo_nomina, nomina, detalle_bono,
          detalle_beneficio, detalle_deduccion, auditoria_nomina, siguiente_id,
          pc, ctx, res, sucio, inactiva, por_peticion>>

(***************************************************************************)
(* app/utils/helpers.py                                                    *)
(***************************************************************************)
\* round(valor, 2) of valor = num/den cents, ties to even
redondear_decimal(num, den) ==
    LET ent == num \div den
        resto == num % den
    IN  IF 2 * resto > den THEN ent + 1
        ELSE IF 2 * resto < den THEN ent
        ELSE IF ent % 2 = 0 THEN ent ELSE ent + 1

\* (valor * porcentaje) / 100, rounded; the product is split so that it stays
\* within 32 bits
calcular_porcentaje(valor, porcentaje) ==
    LET q == valor \div 100000
        r == valor % 100000
        ent == q * porcentaje + ((r * porcentaje) \div 100000)
        resto == (r * porcentaje) % 100000
    IN  IF 2 * resto > 100000 THEN ent + 1
        ELSE IF 2 * resto < 100000 THEN ent
        ELSE IF ent % 2 = 0 THEN ent ELSE ent + 1

EsBisiesto(anio) == (anio % 4 = 0 /\ anio % 100 # 0) \/ anio % 400 = 0

DiasDelMes(anio, mes) ==
    IF mes = 2 THEN (IF EsBisiesto(anio) THEN 29 ELSE 28)
    ELSE IF mes \in {4, 6, 9, 11} THEN 30 ELSE 31

diferencia_de_anios(fecha_ingreso, fecha_referencia) == fecha_referencia[1] - fecha_ingreso[1]

\* relativedelta(fecha_referencia, fecha_ingreso).years, for a reference that is
\* not before the hiring date.  A date is <<year, month, day>>.  The whole months
\* are the month difference, less one when the hiring date moved by that many
\* months (its day clipped to the length of the month) is after the reference.
calcular_anios_antiguedad(fecha_ingreso, fecha_referencia) ==
    LET meses == (fecha_referencia[1] - fecha_ingreso[1]) * 12
                   + (fecha_referencia[2] - fecha_ingreso[2])
        largo == DiasDelMes(fecha_referencia[1], fecha_referencia[2])
        dia == IF fecha_ingreso[3] < largo THEN fecha_ingreso[3] ELSE largo
        completos == IF fecha_referencia[3] < dia THEN meses - 1 ELSE meses
    IN  completos \div 12

calcular_anio_antiguedad(e) == antiguedad[e]

(***************************************************************************)
(* app/services/calculadora_nomina.py.  An employee is read with its type  *)
(* resolved (joinedload of tipo_empleado).  A result is a record whose     *)
(* field error is "" or the code of the exception raised.  A line is       *)
(* [tipo, monto, porcentaje_aplicado, base_calculo]; the free-text         *)
(* descripcion is left out.                                                *)
(***************************************************************************)
tipo_nombre(e) == nombre_tipo[EmpleadoInicial(e).id_tipo_empleado]

Linea(tipo, monto, porcentaje, base) ==
    [tipo |-> tipo, monto |-> monto, porcentaje_aplicado |-> porcentaje, base_calculo |-> base]

Bruto(error, campo, valor) == [error |-> error, campo |-> campo, valor |-> valor]

calcular_asalariado(e) == Bruto("", "", EmpleadoInicial(e).salario_base)

calcular_por_horas_sin_recargo(e, horas_trabajadas, horas_extras) ==
    LET tarifa == EmpleadoInicial(e).tarifa_hora
    IN  IF horas_trabajadas < 0 THEN Bruto("VALIDACION_ERROR", "horas_trabajadas", 0)
        ELSE IF horas_extras < 0 THEN Bruto("VALIDACION_ERROR", "horas_extras", 0)
        ELSE Bruto("", "", horas_trabajadas * tarifa + horas_extras * tarifa)

calcular_por_horas(e, horas_trabajadas, horas_extras) ==
    LET tarifa == EmpleadoInicial(e).tarifa_hora
    IN  IF horas_trabajadas < 0 THEN Bruto("VALIDACION_ERROR", "horas_trabajadas", 0)
        ELSE IF horas_extras < 0 THEN Bruto("VALIDACION_ERROR", "horas_extras", 0)
        ELSE Bruto("", "",
                   redondear_decimal(2 * horas_trabajadas * tarifa + 3 * horas_extras * tarifa, 2))

calcular_por_comision(e, ventas_realizadas) ==
    IF ventas_realizadas < 0 THEN Bruto("VALIDACION_ERROR", "ventas_realizadas", 0)
    ELSE Bruto("", "",
               EmpleadoInicial(e).salario_base
                 + calcular_porcentaje(ventas_realizadas, EmpleadoInicial(e).porcentaje_comision))

calcular_temporal(e) == Bruto("", "", EmpleadoInicial(e).salario_base)

calcular_salario_bruto(e, horas_trabajadas, horas_extras, ventas_realizadas) ==
    IF tipo_nombre(e) = "ASALARIADO" THEN calcular_asalariado(e)
    ELSE IF tipo_nombre(e) = "POR_HORAS"
         THEN calcular_por_horas(e, horas_trabajadas, horas_extras)
    ELSE IF tipo_nombre(e) = "POR_COMISION"
         THEN calcular_por_comision(e, ventas_realizadas)
    ELSE IF tipo_nombre(e) = "TEMPORAL" THEN calcular_temporal(e)
    ELSE Bruto("VALIDACION_ERROR", "tipo_empleado", 0)

SumaMontos(lineas) ==
    LET RECURSIVE suma(_)
        suma(i) == IF i = 0 THEN 0 ELSE suma(i - 1) + lineas[i].monto
    IN  suma(Len(lineas))

calcular_bonos_desde_limite(e, ventas_realizadas) ==
    LET antig == IF tipo_nombre(e) = "ASALARIADO"
                    /\ calcular_anio_antiguedad(e) >= anio_PARA_BONO_ANTIGUEDAD
                 THEN << Linea("BONO_ANTIGUEDAD",
                               calcular_porcentaje(EmpleadoInicial(e).salario_base,
                                                   BONO_ANTIGUEDAD_PORCENTAJE),
                               BONO_ANTIGUEDAD_PORCENTAJE, NULL) >>
                 ELSE << >>
        ventas == IF tipo_nombre(e) = "POR_COMISION"
                     /\ ventas_realizadas >= COMISION_VENTAS_LIMITE
                  THEN << Linea("BONO_VENTAS",
                                calcular_porcentaje(ventas_realizadas, BONO_VENTAS_PORCENTAJE),
                                BONO_VENTAS_PORCENTAJE, NULL) >>
                  ELSE << >>
        bonos == antig \o ventas
    IN  [total |-> SumaMontos(bonos), detalles |-> bonos]

calcular_bonos(e, ventas_realizadas) ==
    LET antig == IF tipo_nombre(e) = "ASALARIADO"
                    /\ calcular_anio_antiguedad(e) >= anio_PARA_BONO_ANTIGUEDAD
                 THEN << Linea("BONO_ANTIGUEDAD",
                               calcular_porcentaje(EmpleadoInicial(e).salario_base,
                                                   BONO_ANTIGUEDAD_PORCENTAJE),
                               BONO_ANTIGUEDAD_PORCENTAJE, NULL) >>
                 ELSE << >>
        ventas == IF tipo_nombre(e) = "POR_COMISION"
                     /\ ventas_realizadas > COMISION_VENTAS_LIMITE
                  THEN << Linea("BONO_VENTAS",
                                calcular_porcentaje(ventas_realizadas, BONO_VENTAS_PORCENTAJE),
                                BONO_VENTAS_PORCENTAJE, NULL) >>
                  ELSE << >>
        bonos == antig \o ventas
    IN  [total |-> SumaMontos(bonos), detalles |-> bonos]

calcular_beneficios_con_aporte(e) ==
    LET alim == IF tipo_nombre(e) \in {"ASALARIADO", "POR_COMISION"}
                THEN << Linea("BONO_ALIMENTACION", BONO_ALIMENTACION, NULL, NULL) >>
                ELSE << >>
        beneficio_fondo == 1
        fondo == IF tipo_nombre(e) = "POR_HORAS"
                    /\ calcular_anio_antiguedad(e) >= anio_PARA_FONDO_AHORRO
                    /\ EmpleadoInicial(e).acepta_fondo_ahorro
                    /\ beneficio_fondo > 0
                 THEN << Linea("FONDO_AHORRO", beneficio_fondo, NULL, NULL) >>
                 ELSE << >>
        beneficios == alim \o fondo
    IN  [total |-> SumaMontos(beneficios), detalles |-> beneficios]

calcular_beneficios(e) ==
    LET alim == IF tipo_nombre(e) \in {"ASALARIADO", "POR_COMISION"}
                THEN << Linea("BONO_ALIMENTACION", BONO_ALIMENTACION, NULL, NULL) >>
                ELSE << >>
        beneficio_fondo == 0
        fondo == IF tipo_nombre(e) = "POR_HORAS"
                    /\ calcular_anio_antiguedad(e) >= anio_PARA_FONDO_AHORRO
                    /\ EmpleadoInicial(e).acepta_fondo_ahorro
                    /\ beneficio_fondo > 0
                 THEN << Linea("FONDO_AHORRO", beneficio_fondo, NULL, NULL) >>
                 ELSE << >>
        beneficios == alim \o fondo
    IN  [total |-> SumaMontos(beneficios), detalles |-> beneficios]

calcular_deducciones_sin_antiguedad(e, salario_bruto) ==
    LET ss == << Linea("SEGURIDAD_SOCIAL_PENSION",
                       calcular_porcentaje(salario_bruto, DEDUCCION_SEGURIDAD_SOCIAL_PENSION),
                       DEDUCCION_SEGURIDAD_SOCIAL_PENSION, salario_bruto) >>
        arl == << Linea("ARL", calcular_porcentaje(salario_bruto, DEDUCCION_ARL),
                        DEDUCCION_ARL, salario_bruto) >>
        fondo == IF tipo_nombre(e) = "POR_HORAS" /\ EmpleadoInicial(e).acepta_fondo_ahorro
                 THEN << Linea("FONDO_AHORRO_EMPLEADO",
                               calcular_porcentaje(salario_bruto, FONDO_AHORRO_PORCENTAJE),
                               FONDO_AHORRO_PORCENTAJE, salario_bruto) >>
                 ELSE << >>
        deducciones == ss \o arl \o fondo
    IN  [total |-> SumaMontos(deducciones), detalles |-> deducciones]

calcular_deducciones(e, salario_bruto) ==
    LET ss == << Linea("SEGURIDAD_SOCIAL_PENSION",
                       calcular_porcentaje(salario_bruto, DEDUCCION_SEGURIDAD_SOCIAL_PENSION),
                       DEDUCCION_SEGURIDAD_SOCIAL_PENSION, salario_bruto) >>
        arl == << Linea("ARL", calcular_porcentaje(salario_bruto, DEDUCCION_ARL),
                        DEDUCCION_ARL, salario_bruto) >>
        fondo == IF tipo_nombre(e) = "POR_HORAS"
                    /\ calcular_anio_antiguedad(e) >= anio_PARA_FONDO_AHORRO
                    /\ EmpleadoInicial(e).acepta_fondo_ahorro
                 THEN << Linea("FONDO_AHORRO_EMPLEADO",
                               calcular_porcentaje(salario_bruto, FONDO_AHORRO_PORCENTAJE),
                               FONDO_AHORRO_PORCENTAJE, salario_bruto) >>
                 ELSE << >>
        deducciones == ss \o arl \o fondo
    IN  [total |-> SumaMontos(deducciones), detalles |-> deducciones]

CalculoSinBeneficios(error, campo, bruto, bonos, beneficios, deducciones) ==
    [error |-> error, campo |-> campo,
     salario_bruto |-> bruto,
     total_bonos |-> bonos.total,
     total_beneficios |-> beneficios.total,
     total_deducciones |-> deducciones.total,
     salario_neto |-> bruto + bonos.total - deducciones.total,
     detalles_bonos |-> bonos.detalles,
     detalles_beneficios |-> beneficios.detalles,
     detalles_deducciones |-> deducciones.detalles]

Calculo(error, campo, bruto, bonos, beneficios, deducciones) ==
    [error |-> error, campo |-> campo,
     salario_bruto |-> bruto,
     total_bonos |-> bonos.total,
     total_beneficios |-> beneficios.total,
     total_deducciones |-> deducciones.total,
     salario_neto |-> bruto + bonos.total + beneficios.total - deducciones.total,
     detalles_bonos |-> bonos.detalles,
     detalles_beneficios |-> beneficios.detalles,
     detalles_deducciones |-> deducciones.detalles]

SinLineas == [total |-> 0, detalles |-> << >>]

calcular_sin_validar_neto(e, horas_trabajadas, horas_extras, ventas_realizadas) ==
    LET bruto == calcular_salario_bruto(e, horas_trabajadas, horas_extras, ventas_realizadas)
    IN  IF bruto.error # ""
        THEN Calculo(bruto.error, bruto.campo, 0, SinLineas, SinLineas, SinLineas)
        ELSE Calculo("", "", bruto.valor, calcular_bonos(e, ventas_realizadas),
                     calcular_beneficios(e), calcular_deducciones(e, bruto.valor))
calcular_rechazando_cero(e, horas_trabajadas, horas_extras, ventas_realizadas) ==
    LET bruto == calcular_salario_bruto(e, horas_trabajadas, horas_extras, ventas_realizadas)
        bonos == calcular_bonos(e, ventas_realizadas)
        beneficios == calcular_beneficios(e)
        deducciones == calcular_deducciones(e, bruto.valor)
        c == Calculo("", "", bruto.valor, bonos, beneficios, deducciones)
    IN  IF bruto.error # ""
        THEN Calculo(bruto.error, bruto.campo, 0, SinLineas, SinLineas, SinLineas)
        ELSE IF c.salario_neto <= 0
        THEN Calculo("SALARIO_NEGATIVO", "", 0, SinLineas, SinLineas, SinLineas)
        ELSE c

calcular_nomina_completa(e, horas_trabajadas, horas_extras, ventas_realizadas) ==
    LET bruto == calcular_salario_bruto(e, horas_trabajadas, horas_extras, ventas_realizadas)
        bonos == calcular_bonos(e, ventas_realizadas)
        beneficios == calcular_beneficios(e)
        deducciones == calcular_deducciones(e, bruto.valor)
        c == Calculo("", "", bruto.valor, bonos, beneficios, deducciones)
    IN  IF bruto.error # ""
        THEN Calculo(bruto.error, bruto.campo, 0, SinLineas, SinLineas, SinLineas)
        ELSE IF c.salario_neto < 0
        THEN Calculo("SALARIO_NEGATIVO", "", 0, SinLineas, SinLineas, SinLineas)
        ELSE c

(***************************************************************************)
(* The store: models, constraints and repository queries.                  *)
(***************************************************************************)
\* PeriodoNomina.esta_cerrado
solo_cerrado(p) == periodo_nomina[p] = "CERRADO"
esta_cerrado(p) == periodo_nomina[p] \in {"CERRADO", "PAGADO"}

\* EmpleadoRepository.get_all_activos: the ids, in primary-key order
get_all ==
    LET RECURSIVE orden(_)
        orden(S) == IF S = {} THEN << >>
                    ELSE LET m == CHOOSE x \in S : \A y \in S : x <= y
                         IN  << m >> \o orden(S \ {m})
    IN  orden(empleado)
get_all_no_inactivos ==
    LET RECURSIVE orden(_)
        orden(S) == IF S = {} THEN << >>
                    ELSE LET m == CHOOSE x \in S : \A y \in S : x <= y
                         IN  << m >> \o orden(S \ {m})
    IN  orden({e \in empleado : EmpleadoInicial(e).estado # "INACTIVO"})
get_all_activos ==
    LET activos == {e \in empleado : EmpleadoInicial(e).estado = "ACTIVO"}
        RECURSIVE orden(_)
        orden(S) == IF S = {} THEN << >>
                    ELSE LET m == CHOOSE x \in S : \A y \in S : x <= y
                         IN  << m >> \o orden(S \ {m})
    IN  orden(activos)

\* NominaRepository.get_by_empleado_periodo: the id of the row found, or NULL
sin_busqueda(e, p) == NULL
get_by_empleado_periodo(e, p) ==
    LET halladas == {n \in DOMAIN nomina :
                        nomina[n].id_empleado = e /\ nomina[n].id_periodo = p}
    IN  IF halladas = {} THEN NULL
        ELSE CHOOSE n \in halladas : \A m \in halladas : n <= m

\* NominaRepository.exists_nomina
exists_nomina(e, p) == get_by_empleado_periodo(e, p) # NULL

\* UniqueConstraint uk_nomina_empleado_periodo: may a row (e, p) be inserted?
uk_sin_restriccion(filas, e, p) == TRUE
uk_por_periodo(filas, e, p) == ~ \E n \in DOMAIN filas : filas[n].id_periodo = p

uk_nomina_empleado_periodo(filas, e, p) ==
    ~ \E n \in DOMAIN filas : filas[n].id_empleado = e /\ filas[n].id_periodo = p

\* sessionmaker(autocommit=False): a flush is not visible to other sessions
autocommit_activo == TRUE
autocommit == FALSE

\* Column porcentaje_aplicado Numeric(5, 2): two decimals are kept
Numeric_5_2(porcentaje) ==
    IF porcentaje = NULL THEN NULL ELSE ((porcentaje + 5) \div 10) * 10

\* DetalleBono(id_nomina=..., **bono_data) and its siblings
FilaDetalle(n, l) ==
    [id_nomina |-> n, tipo |-> l.tipo, monto |-> l.monto,
     porcentaje_aplicado |-> Numeric_5_2(l.porcentaje_aplicado),
     base_calculo |-> l.base_calculo]

SinFilasDetalle(n, lineas) == << >>

FilasDetalle(n, lineas) == [i \in 1..Len(lineas) |-> FilaDetalle(n, lineas[i])]

\* Nomina(...) as built by calcular_y_crear_nomina
FilaNominaSinDescuento(e, p, entradas, calculo, usuario) ==
    [id_empleado |-> e, id_periodo |-> p,
     horas_trabajadas |-> entradas[1], horas_extras |-> entradas[2],
     ventas_realizadas |-> entradas[3],
     salario_bruto |-> calculo.salario_bruto,
     total_bonos |-> calculo.total_bonos,
     total_beneficios |-> calculo.total_beneficios,
     total_deducciones |-> calculo.total_deducciones,
     salario_neto |-> calculo.salario_bruto + calculo.total_bonos + calculo.total_beneficios,
     calculado_por |-> usuario]

FilaNomina(e, p, entradas, calculo, usuario) ==
    [id_empleado |-> e, id_periodo |-> p,
     horas_trabajadas |-> entradas[1], horas_extras |-> entradas[2],
     ventas_realizadas |-> entradas[3],
     salario_bruto |-> calculo.salario_bruto,
     total_bonos |-> calculo.total_bonos,
     total_beneficios |-> calculo.total_beneficios,
     total_deducciones |-> calculo.total_deducciones,
     salario_neto |-> calculo.salario_neto,
     calculado_por |-> usuario]

Nada == [nada |-> TRUE]

\* AuditoriaNomina(...)
FilaAuditoria(n, accion, usuario, anteriores, nuevos) ==
    [id_nomina |-> n, accion |-> accion, usuario |-> usuario,
     valores_anteriores |-> anteriores, valores_nuevos |-> nuevos]

\* The ids a nomina row can get
IdsNomina == 1..MaxNominas

TablaVacia == [n \in IdsNomina |-> << >>]

\* The rows of a detail or audit table that belong to nomina n, the table without
\* the rows of the nominas N, and the table after the insertion of rows of n
De(tabla, n) == tabla[n]
SinLasDe(tabla, N) == [n \in IdsNomina |-> IF n \in N THEN << >> ELSE tabla[n]]
Insertar(tabla, n, filas) == [tabla EXCEPT ![n] = @ \o filas]

Quitar(f, D) == [x \in DOMAIN f \ D |-> f[x]]

(***************************************************************************)
(* Sessions.  pc is "idle" between calls.                                  *)
(***************************************************************************)
CalculoVacio == Calculo("", "", 0, SinLineas, SinLineas, SinLineas)

CtxVacio ==
    [id_empleado |-> NULL, id_periodo |-> NULL, entradas |-> <<0, 0, 0>>,
     usuario |-> "SYSTEM", calculo |-> CalculoVacio, id_nomina |-> NULL,
     bulk |-> FALSE, cola |-> << >>, total_empleados |-> 0,
     exitosas |-> << >>, fallidas |-> << >>]

SinResultados == [total_empleados |-> 0, exitosas |-> << >>, fallidas |-> << >>]

Resultado(op, code, n, resultados) ==
    [op |-> op, code |-> code, id_nomina |-> n, resultados |-> resultados]

\* No call ended in the step just taken
SinRes == Resultado("ninguna", "", NULL, SinResultados)

SinSucio == [n \in {} |-> <<0, 0, 0>>]

\* The unflushed attribute changes of session s applied to the nomina rows
AplicarSucio(s, filas) ==
    [n \in DOMAIN filas |->
        IF n \in DOMAIN sucio[s]
        THEN [filas[n] EXCEPT !.horas_trabajadas = sucio[s][n][1],
                              !.horas_extras = sucio[s][n][2],
                              !.ventas_realizadas = sucio[s][n][3]]
        ELSE filas[n]]

\* An UPDATE of a row that is gone matches no row: StaleDataError
FlushObsoleto(s) == \E n \in DOMAIN sucio[s] : n \notin DOMAIN nomina

\* The call of session s ends with result r; get_db closes a per-request session
Fin(s, r, sucio_s, inactiva_s) ==
    /\ pc' = [pc EXCEPT ![s] = "idle"]
    /\ ctx' = [ctx EXCEPT ![s] = CtxVacio]
    /\ res' = r
    /\ sucio' = [sucio EXCEPT ![s] = IF por_peticion THEN SinSucio ELSE sucio_s]
    /\ inactiva' = [inactiva EXCEPT ![s] = IF por_peticion THEN FALSE ELSE inactiva_s]

\* init_db: the tables of payrolls are empty, no session is inside a call
InitAlmacen ==
    /\ nomina = [n \in {} |-> Nada]
    /\ detalle_bono = TablaVacia
    /\ detalle_beneficio = TablaVacia
    /\ detalle_deduccion = TablaVacia
    /\ auditoria_nomina = TablaVacia
    /\ siguiente_id = 1
    /\ pc = [s \in Sesiones |-> "idle"]
    /\ ctx = [s \in Sesiones |-> CtxVacio]
    /\ res = SinRes
    /\ sucio = [s \in Sesiones |-> SinSucio]
    /\ inactiva = [s \in Sesiones |-> FALSE]

InitDatos ==
    /\ empleado = Empleados
    /\ nombre_tipo = [t \in TiposEmpleado |-> NombreTipoInicial(t)]
    /\ antiguedad = [e \in Plantilla |-> EmpleadoInicial(e).antiguedad]
    /\ periodo_nomina = [p \in Periodos |-> "ABIERTO"]
    /\ InitAlmacen

\* get_db: every request opens a session and closes it in finally
Init == InitDatos /\ por_peticion = TRUE

(***************************************************************************)
(* NominaService.calcular_y_crear_nomina, in three steps: the checks and   *)
(* the computation (steps 1-5), db.add + db.flush (step 6), the detail and *)
(* audit rows + db.commit (steps 7-11).  It is called by a request or by   *)
(* the loop of calcular_nominas_periodo (ctx.bulk).                        *)
(***************************************************************************)
Validacion(code, n, calculo) == [code |-> code, id_nomina |-> n, calculo |-> calculo]

\* Steps 1 to 5: the code of the exception raised, or "" and the computation
PrevalidarDuplicadaPrimero(s, e, p, entradas) ==
    IF inactiva[s] THEN Validacion("PendingRollbackError", NULL, CalculoVacio)
    ELSE IF e \notin empleado THEN Validacion("EMPLEADO_NOT_FOUND", NULL, CalculoVacio)
    ELSE IF p \notin DOMAIN periodo_nomina
         THEN Validacion("PERIODO_NOT_FOUND", NULL, CalculoVacio)
    ELSE IF get_by_empleado_periodo(e, p) # NULL
         THEN Validacion("NOMINA_DUPLICADA", get_by_empleado_periodo(e, p), CalculoVacio)
    ELSE IF esta_cerrado(p) THEN Validacion("PERIODO_CERRADO", NULL, CalculoVacio)
    ELSE LET calculo == calcular_nomina_completa(e, entradas[1], entradas[2], entradas[3])
         IN  Validacion(calculo.error, NULL, calculo)

Prevalidar(s, e, p, entradas) ==
    IF inactiva[s] THEN Validacion("PendingRollbackError", NULL, CalculoVacio)
    ELSE IF e \notin empleado THEN Validacion("EMPLEADO_NOT_FOUND", NULL, CalculoVacio)
    ELSE IF p \notin DOMAIN periodo_nomina
         THEN Validacion("PERIODO_NOT_FOUND", NULL, CalculoVacio)
    ELSE IF esta_cerrado(p) THEN Validacion("PERIODO_CERRADO", NULL, CalculoVacio)
    ELSE IF get_by_empleado_periodo(e, p) # NULL
         THEN Validacion("NOMINA_DUPLICADA", get_by_empleado_periodo(e, p), CalculoVacio)
    ELSE LET calculo == calcular_nomina_completa(e, entradas[1], entradas[2], entradas[3])
         IN  Validacion(calculo.error, NULL, calculo)

\* calcular_y_crear_nomina raises: the request ends, or the loop records the
\* failure.  After a failed flush the employees are expired and the session
\* refuses to load them: empleado.id_empleado raises in the except block, and
\* calcular_nominas_periodo raises with it.
CrearFalla(s, code, n, sucio_s, inactiva_s) ==
    IF ctx[s].bulk /\ inactiva_s
    THEN Fin(s, Resultado("bulk", "PendingRollbackError", NULL, SinResultados),
             sucio_s, inactiva_s)
    ELSE IF ctx[s].bulk
    THEN /\ pc' = [pc EXCEPT ![s] = "bulk"]
         /\ ctx' = [ctx EXCEPT ![s] =
                [ctx[s] EXCEPT !.id_empleado = NULL, !.calculo = CalculoVacio,
                               !.id_nomina = NULL, !.cola = Tail(@),
                               !.fallidas = Append(@, [empleado_id |-> Head(ctx[s].cola),
                                                       error |-> code])]]
         /\ sucio' = [sucio EXCEPT ![s] = sucio_s]
         /\ inactiva' = [inactiva EXCEPT ![s] = inactiva_s]
         /\ res' = SinRes
    ELSE Fin(s, Resultado("crear", code, n, SinResultados), sucio_s, inactiva_s)

\* An id is left for one more insert, counting the inserts about to be flushed
QuedaId == siguiente_id + Cardinality({t \in Sesiones : pc[t] = "crear_flush"}) <= MaxNominas

CrearInicio(s, e, p, entradas, usuario) ==
    /\ pc[s] = "idle"
    /\ QuedaId
    /\ LET v == Prevalidar(s, e, p, entradas)
       IN  IF v.code # ""
           THEN CrearFalla(s, v.code, v.id_nomina, sucio[s], inactiva[s])
           ELSE /\ pc' = [pc EXCEPT ![s] = "crear_flush"]
                /\ ctx' = [ctx EXCEPT ![s] =
                       [CtxVacio EXCEPT !.id_empleado = e, !.id_periodo = p,
                                        !.entradas = entradas, !.usuario = usuario,
                                        !.calculo = v.calculo]]
                /\ res' = SinRes /\ UNCHANGED <<sucio, inactiva>>
    /\ UNCHANGED <<tablas, entorno, siguiente_id, por_peticion>>

\* InnoDB makes an INSERT wait for an uncommitted row with the same unique key
EsperaBloqueo(s) ==
    \E t \in Sesiones \ {s} :
        /\ pc[t] = "crear_commit"
        /\ ctx[t].id_empleado = ctx[s].id_empleado
        /\ ctx[t].id_periodo = ctx[s].id_periodo

\* Step 6: what db.flush() raises, or ""
ErrorFlush(s) ==
    IF FlushObsoleto(s) THEN "StaleDataError"
    ELSE IF ctx[s].id_empleado \notin empleado
            \/ ctx[s].id_periodo \notin DOMAIN periodo_nomina
         THEN "IntegrityError:fk_nomina"
    ELSE IF ~ uk_nomina_empleado_periodo(nomina, ctx[s].id_empleado, ctx[s].id_periodo)
         THEN "IntegrityError:uk_nomina_empleado_periodo"
    ELSE ""

CrearFlush(s) ==
    /\ pc[s] = "crear_flush"
    /\ ~ EsperaBloqueo(s)
    /\ IF ErrorFlush(s) # ""
       THEN /\ CrearFalla(s, ErrorFlush(s), NULL, SinSucio, TRUE)
            /\ UNCHANGED <<nomina, siguiente_id>>
       ELSE /\ pc' = [pc EXCEPT ![s] = "crear_commit"]
            /\ ctx' = [ctx EXCEPT ![s].id_nomina = siguiente_id]
            /\ siguiente_id' = siguiente_id + 1
            /\ nomina' = IF autocommit
                         THEN (siguiente_id :> FilaNomina(ctx[s].id_empleado, ctx[s].id_periodo,
                                                          ctx[s].entradas, ctx[s].calculo,
                                                          ctx[s].usuario)) @@ nomina
                         ELSE nomina
            /\ res' = SinRes /\ UNCHANGED <<sucio, inactiva>>
    /\ UNCHANGED <<detalle_bono, detalle_beneficio, detalle_deduccion, auditoria_nomina,
                   entorno, por_peticion>>

CincoTotales(c) ==
    [salario_bruto |-> c.salario_bruto, salario_neto |-> c.salario_neto,
     total_bonos |-> c.total_bonos, total_beneficios |-> c.total_beneficios,
     total_deducciones |-> c.total_deducciones]

CrearCommit(s) ==
    /\ pc[s] = "crear_commit"
    /\ LET n == ctx[s].id_nomina
           c == ctx[s].calculo
       IN  /\ nomina' = (n :> FilaNomina(ctx[s].id_empleado, ctx[s].id_periodo,
                                         ctx[s].entradas, c, ctx[s].usuario))
                          @@ AplicarSucio(s, nomina)
           /\ detalle_bono' = Insertar(detalle_bono, n, FilasDetalle(n, c.detalles_bonos))
           /\ detalle_beneficio' =
                Insertar(detalle_beneficio, n, FilasDetalle(n, c.detalles_beneficios))
           /\ detalle_deduccion' =
                Insertar(detalle_deduccion, n, FilasDetalle(n, c.detalles_deducciones))
           /\ auditoria_nomina' =
                Insertar(auditoria_nomina, n,
                         <<FilaAuditoria(n, "CREAR", ctx[s].usuario, Nada, CincoTotales(c))>>)
           /\ IF ctx[s].bulk
              THEN /\ pc' = [pc EXCEPT ![s] = "bulk"]
                   /\ ctx' = [ctx EXCEPT ![s] =
                          [ctx[s] EXCEPT !.id_empleado = NULL, !.calculo = CalculoVacio,
                                         !.id_nomina = NULL, !.cola = Tail(@),
                                         !.exitosas = Append(@, [empleado_id |-> Head(ctx[s].cola),
                                                                 nomina_id |-> n,
                                                                 salario_neto |-> c.salario_neto])]]
                   /\ sucio' = [sucio EXCEPT ![s] = SinSucio]
                   /\ res' = SinRes /\ UNCHANGED inactiva
              ELSE Fin(s, Resultado("crear", "OK", n, SinResultados), SinSucio, FALSE)
    /\ UNCHANGED <<entorno, siguiente_id, por_peticion>>

(***************************************************************************)
(* NominaService.recalcular_nomina: one transaction, from get_by_id to     *)
(* db.commit().                                                            *)
(***************************************************************************)
\* The inputs of nomina n as session s holds them (its unflushed changes included)
EntradasVistas(s, n) ==
    IF n \in DOMAIN sucio[s] THEN sucio[s][n]
    ELSE <<nomina[n].horas_trabajadas, nomina[n].horas_extras, nomina[n].ventas_realizadas>>

\* Step 4: only the fields provided are assigned
SustituirEntradas(entradas, nomina_update) ==
    << IF nomina_update.horas_trabajadas # NULL THEN nomina_update.horas_trabajadas ELSE 0,
       IF nomina_update.horas_extras # NULL THEN nomina_update.horas_extras ELSE 0,
       IF nomina_update.ventas_realizadas # NULL THEN nomina_update.ventas_realizadas ELSE 0 >>
AplicarUpdate(entradas, nomina_update) ==
    << IF nomina_update.horas_trabajadas # NULL
       THEN nomina_update.horas_trabajadas ELSE entradas[1],
       IF nomina_update.horas_extras # NULL
       THEN nomina_update.horas_extras ELSE entradas[2],
       IF nomina_update.ventas_realizadas # NULL
       THEN nomina_update.ventas_realizadas ELSE entradas[3] >>

\* Step 7: for linea in nomina.bonos / beneficios / deducciones: db.delete(linea)
ConservarDetalles(tabla, n) == tabla
EliminarDetalles(tabla, n) == SinLasDe(tabla, {n})

ValoresRecalculo(entradas, bruto, neto) ==
    [horas_trabajadas |-> entradas[1], horas_extras |-> entradas[2],
     ventas_realizadas |-> entradas[3], salario_bruto |-> bruto, salario_neto |-> neto]

\* The RECALCULAR entries in the audit table
RECURSIVE CuentaRecalculos(_)
CuentaRecalculos(N) ==
    IF N = {} THEN 0
    ELSE LET n == CHOOSE x \in N : TRUE
         IN  Len(SelectSeq(auditoria_nomina[n], LAMBDA f : f.accion = "RECALCULAR"))
               + CuentaRecalculos(N \ {n})

Recalculos == CuentaRecalculos(IdsNomina)

RecalcularNomina(s, n, nomina_update, usuario) ==
    /\ pc[s] = "idle"
    /\ n \in DOMAIN nomina => Recalculos < MaxRecalculos
    /\ IF inactiva[s]
       THEN /\ Fin(s, Resultado("recalcular", "PendingRollbackError", n, SinResultados),
                   sucio[s], inactiva[s])
            /\ UNCHANGED tablas
       ELSE IF n \notin DOMAIN nomina
       THEN /\ Fin(s, Resultado("recalcular", "NOMINA_NOT_FOUND", n, SinResultados),
                   sucio[s], inactiva[s])
            /\ UNCHANGED tablas
       ELSE IF esta_cerrado(nomina[n].id_periodo)
       THEN /\ Fin(s, Resultado("recalcular", "PERIODO_CERRADO", n, SinResultados),
                   sucio[s], inactiva[s])
            /\ UNCHANGED tablas
       ELSE LET antes == EntradasVistas(s, n)
                entradas == AplicarUpdate(antes, nomina_update)
                c == calcular_nomina_completa(nomina[n].id_empleado,
                                              entradas[1], entradas[2], entradas[3])
                anteriores == ValoresRecalculo(antes, nomina[n].salario_bruto,
                                               nomina[n].salario_neto)
                nuevos == ValoresRecalculo(entradas, c.salario_bruto, c.salario_neto)
            IN  IF c.error # ""
                THEN \* the attributes assigned in step 4 stay modified in the session
                     /\ Fin(s, Resultado("recalcular", c.error, n, SinResultados),
                            IF entradas # antes \/ n \in DOMAIN sucio[s]
                            THEN (n :> entradas) @@ sucio[s] ELSE sucio[s],
                            FALSE)
                     /\ UNCHANGED tablas
                ELSE IF FlushObsoleto(s)
                THEN /\ Fin(s, Resultado("recalcular", "StaleDataError", n, SinResultados),
                            SinSucio, TRUE)
                     /\ UNCHANGED tablas
                ELSE /\ nomina' =
                          [AplicarSucio(s, nomina) EXCEPT ![n] =
                              [@ EXCEPT !.horas_trabajadas = entradas[1],
                                        !.horas_extras = entradas[2],
                                        !.ventas_realizadas = entradas[3],
                                        !.salario_bruto = c.salario_bruto,
                                        !.total_bonos = c.total_bonos,
                                        !.total_beneficios = c.total_beneficios,
                                        !.total_deducciones = c.total_deducciones,
                                        !.salario_neto = c.salario_neto,
                                        !.calculado_por = usuario]]
                     /\ detalle_bono' =
                          Insertar(EliminarDetalles(detalle_bono, n), n,
                                   FilasDetalle(n, c.detalles_bonos))
                     /\ detalle_beneficio' =
                          Insertar(EliminarDetalles(detalle_beneficio, n), n,
                                   FilasDetalle(n, c.detalles_beneficios))
                     /\ detalle_deduccion' =
                          Insertar(EliminarDetalles(detalle_deduccion, n), n,
                                   FilasDetalle(n, c.detalles_deducciones))
                     /\ auditoria_nomina' =
                          Insertar(auditoria_nomina, n,
                                   <<FilaAuditoria(n, "RECALCULAR", usuario, anteriores, nuevos)>>)
                     /\ Fin(s, Resultado("recalcular", "OK", n, SinResultados), SinSucio, FALSE)
    /\ UNCHANGED <<entorno, siguiente_id, por_peticion>>

(***************************************************************************)
(* NominaService.eliminar_nomina: the audit row is committed (db.commit),  *)
(* then NominaRepository.delete looks the row up again, deletes it with    *)
(* its cascade and commits.                                                *)
(***************************************************************************)
EliminarConError(s, n, usuario) ==
    /\ pc[s] = "idle"
    /\ n \notin DOMAIN nomina
    /\ Fin(s, Resultado("eliminar", "NOMINA_NOT_FOUND", n, SinResultados), sucio[s], inactiva[s])
    /\ UNCHANGED <<tablas, entorno, siguiente_id, por_peticion>>
EliminarAuditar(s, n, usuario) ==
    /\ pc[s] = "idle"
    /\ IF inactiva[s]
       THEN /\ Fin(s, Resultado("eliminar", "PendingRollbackError", n, SinResultados),
                   sucio[s], inactiva[s])
            /\ UNCHANGED tablas
       ELSE IF n \notin DOMAIN nomina
       THEN /\ Fin(s, Resultado("eliminar", "False", n, SinResultados), sucio[s], inactiva[s])
            /\ UNCHANGED tablas
       ELSE IF esta_cerrado(nomina[n].id_periodo)
       THEN /\ Fin(s, Resultado("eliminar", "PERIODO_CERRADO", n, SinResultados),
                   sucio[s], inactiva[s])
            /\ UNCHANGED tablas
       ELSE IF FlushObsoleto(s)
       THEN /\ Fin(s, Resultado("eliminar", "StaleDataError", n, SinResultados), SinSucio, TRUE)
            /\ UNCHANGED tablas
       ELSE /\ auditoria_nomina' =
                 Insertar(auditoria_nomina, n,
                          <<FilaAuditoria(n, "ELIMINAR", usuario,
                                          [salario_bruto |-> nomina[n].salario_bruto,
                                           salario_neto |-> nomina[n].salario_neto],
                                          Nada)>>)
            /\ nomina' = AplicarSucio(s, nomina)
            /\ pc' = [pc EXCEPT ![s] = "eliminar_delete"]
            /\ ctx' = [ctx EXCEPT ![s] = [CtxVacio EXCEPT !.id_nomina = n, !.usuario = usuario]]
            /\ sucio' = [sucio EXCEPT ![s] = SinSucio]
            /\ res' = SinRes
            /\ UNCHANGED <<detalle_bono, detalle_beneficio, detalle_deduccion, inactiva>>
    /\ UNCHANGED <<entorno, siguiente_id, por_peticion>>

CascadaSinAuditoria(N) ==
    /\ nomina' = Quitar(nomina, N)
    /\ detalle_bono' = SinLasDe(detalle_bono, N)
    /\ detalle_beneficio' = SinLasDe(detalle_beneficio, N)
    /\ detalle_deduccion' = SinLasDe(detalle_deduccion, N)
    /\ auditoria_nomina' = auditoria_nomina

\* Nomina's relationships cascade="all, delete-orphan": the rows deleted with nomina N
CascadaNomina(N) ==
    /\ nomina' = Quitar(nomina, N)
    /\ detalle_bono' = SinLasDe(detalle_bono, N)
    /\ detalle_beneficio' = SinLasDe(detalle_beneficio, N)
    /\ detalle_deduccion' = SinLasDe(detalle_deduccion, N)
    /\ auditoria_nomina' = SinLasDe(auditoria_nomina, N)

EliminarBorrar(s) ==
    /\ pc[s] = "eliminar_delete"
    /\ LET n == ctx[s].id_nomina
       IN  IF n \in DOMAIN nomina
           THEN /\ CascadaNomina({n})
                /\ Fin(s, Resultado("eliminar", "True", n, SinResultados), SinSucio, FALSE)
           ELSE /\ UNCHANGED tablas
                /\ Fin(s, Resultado("eliminar", "False", n, SinResultados), SinSucio, FALSE)
    /\ UNCHANGED <<entorno, siguiente_id, por_peticion>>

(***************************************************************************)
(* NominaService.calcular_nominas_periodo: the period checks and the       *)
(* snapshot of the active employees, then one iteration of the loop per    *)
(* employee, then the return of resultados.                                *)
(***************************************************************************)
\* The sessions inside a run of calcular_nominas_periodo
EnBulk == {s \in Sesiones : ctx[s].bulk}

BulkInicio(s, p, usuario) ==
    /\ pc[s] = "idle"
    /\ QuedaId
    /\ Cardinality(EnBulk) < MaxBulk
    /\ IF inactiva[s]
       THEN Fin(s, Resultado("bulk", "PendingRollbackError", NULL, SinResultados),
                sucio[s], inactiva[s])
       ELSE IF p \notin DOMAIN periodo_nomina
       THEN Fin(s, Resultado("bulk", "PERIODO_NOT_FOUND", NULL, SinResultados),
                sucio[s], inactiva[s])
       ELSE IF esta_cerrado(p)
       THEN Fin(s, Resultado("bulk", "PERIODO_CERRADO", NULL, SinResultados),
                sucio[s], inactiva[s])
       ELSE /\ pc' = [pc EXCEPT ![s] = "bulk"]
            /\ ctx' = [ctx EXCEPT ![s] =
                   [CtxVacio EXCEPT !.id_periodo = p, !.usuario = usuario, !.bulk = TRUE,
                                    !.cola = get_all_activos,
                                    !.total_empleados = Len(get_all_activos)]]
            /\ res' = SinRes /\ UNCHANGED <<sucio, inactiva>>
    /\ UNCHANGED <<tablas, entorno, siguiente_id, por_peticion>>

\* One pass of the try block up to the call of calcular_y_crear_nomina.  The
\* commit of a payroll expires the employees: the next read of
\* empleado.id_empleado reloads the row, and raises ObjectDeletedError, in the
\* try block and again in the except block, when the row is gone.
BulkEmpleado(s) ==
    /\ pc[s] = "bulk"
    /\ ctx[s].cola # << >>
    /\ QuedaId
    /\ LET e == Head(ctx[s].cola)
           p == ctx[s].id_periodo
           v == Prevalidar(s, e, p, <<0, 0, 0>>)
       IN  IF e \notin empleado /\ ctx[s].exitosas # << >>
           THEN Fin(s, Resultado("bulk", "ObjectDeletedError", NULL, SinResultados),
                    sucio[s], inactiva[s])
           ELSE IF exists_nomina(e, p)
           THEN CrearFalla(s, "Ya existe nomina para este periodo", NULL, sucio[s], inactiva[s])
           ELSE IF v.code # ""
           THEN CrearFalla(s, v.code, v.id_nomina, sucio[s], inactiva[s])
           ELSE /\ pc' = [pc EXCEPT ![s] = "crear_flush"]
                /\ ctx' = [ctx EXCEPT ![s] =
                       [ctx[s] EXCEPT !.id_empleado = e, !.entradas = <<0, 0, 0>>,
                                      !.calculo = v.calculo]]
                /\ res' = SinRes /\ UNCHANGED <<sucio, inactiva>>
    /\ UNCHANGED <<tablas, entorno, siguiente_id, por_peticion>>

BulkFin(s) ==
    /\ pc[s] = "bulk"
    /\ ctx[s].cola = << >>
    /\ Fin(s, Resultado("bulk", "OK", NULL,
                        [total_empleados |-> ctx[s].total_empleados,
                         exitosas |-> ctx[s].exitosas, fallidas |-> ctx[s].fallidas]),
           sucio[s], inactiva[s])
    /\ UNCHANGED <<tablas, entorno, siguiente_id, por_peticion>>

(***************************************************************************)
(* The collaborators: each is one request on a session of its own.         *)
(***************************************************************************)
\* PUT /periodos/{id}: BaseRepository.update sets estado
ActualizarPeriodo(p, estado) ==
    /\ p \in DOMAIN periodo_nomina
    /\ estado # periodo_nomina[p]
    /\ periodo_nomina' = [periodo_nomina EXCEPT ![p] = estado]
    /\ UNCHANGED <<empleado, nombre_tipo, antiguedad, tablas, siguiente_id,
                   pc, ctx, sucio, inactiva, por_peticion>>
    /\ res' = SinRes

\* EmpleadoService.eliminar_empleado: Empleado.nominas cascade="all, delete-orphan".
\* The delete waits for an uncommitted nomina row that references the employee.
EliminarEmpleado(e) ==
    /\ e \in empleado
    /\ ~ \E s \in Sesiones : pc[s] = "crear_commit" /\ ctx[s].id_empleado = e
    /\ empleado' = empleado \ {e}
    /\ CascadaNomina({n \in DOMAIN nomina : nomina[n].id_empleado = e})
    /\ UNCHANGED <<nombre_tipo, antiguedad, periodo_nomina, siguiente_id,
                   pc, ctx, sucio, inactiva, por_peticion>>
    /\ res' = SinRes

\* PUT /tipos-empleado/{id}: the name must stay unique
ActualizarTipoEmpleado(t, nombre) ==
    /\ t \in DOMAIN nombre_tipo
    /\ nombre # nombre_tipo[t]
    /\ ~ \E u \in DOMAIN nombre_tipo : nombre_tipo[u] = nombre
    /\ nombre_tipo' = [nombre_tipo EXCEPT ![t] = nombre]
    /\ UNCHANGED <<empleado, antiguedad, periodo_nomina, tablas, siguiente_id,
                   pc, ctx, sucio, inactiva, por_peticion>>
    /\ res' = SinRes

RECURSIVE SumaAniversarios(_)
SumaAniversarios(E) ==
    IF E = {} THEN 0
    ELSE LET e == CHOOSE x \in E : TRUE
         IN  antiguedad[e] - EmpleadoInicial(e).antiguedad + SumaAniversarios(E \ {e})

Aniversarios == SumaAniversarios(Empleados)

\* date.today() passes an anniversary of the employee's fecha_ingreso
PasaAniversario(e) ==
    /\ e \in empleado
    /\ Aniversarios < MaxAniversarios
    /\ antiguedad' = [antiguedad EXCEPT ![e] = @ + 1]
    /\ UNCHANGED <<empleado, nombre_tipo, periodo_nomina, tablas, siguiente_id,
                   pc, ctx, sucio, inactiva, por_peticion>>
    /\ res' = SinRes

\* The holder of a shared session calls db.rollback()
Rollback(s) ==
    /\ ~ por_peticion
    /\ pc[s] = "idle"
    /\ inactiva[s] \/ sucio[s] # SinSucio
    /\ sucio' = [sucio EXCEPT ![s] = SinSucio]
    /\ inactiva' = [inactiva EXCEPT ![s] = FALSE]
    /\ UNCHANGED <<entorno, tablas, siguiente_id, pc, ctx, por_peticion>>
    /\ res' = SinRes

NombresTipo(t) == {NombreTipoInicial(t), "CONTRATISTA"}

\* One call of NominaService on session s
Peticion(s) ==
    \/ \E e \in Empleados \cup empleado, p \in Periodos \cup {2}, entradas \in Entradas :
            CrearInicio(s, e, p, entradas, "SYSTEM")
    \/ CrearFlush(s)
    \/ CrearCommit(s)
    \/ \E n \in IdsNomina, nomina_update \in Actualizaciones, usuario \in Usuarios :
            RecalcularNomina(s, n, nomina_update, usuario)
    \/ \E n \in IdsNomina, usuario \in Usuarios : EliminarAuditar(s, n, usuario)
    \/ EliminarBorrar(s)
    \/ \E p \in Periodos \cup {2} : BulkInicio(s, p, "SYSTEM")
    \/ BulkEmpleado(s)
    \/ BulkFin(s)

\* The endpoints of periods and employees
Administracion ==
    \/ \E p \in Periodos, estado \in EstadoPeriodoEnum : ActualizarPeriodo(p, estado)
    \/ \E e \in Empleados : EliminarEmpleado(e)

\* The catalogue of employee types and the calendar
Catalogo ==
    \/ \E t \in TiposEmpleado : \E nombre \in NombresTipo(t) : ActualizarTipoEmpleado(t, nombre)
    \/ \E e \in Empleados : PasaAniversario(e)

\* Concurrent requests through the endpoints, every call on a session of its own
Next == (\E s \in Sesiones : Peticion(s)) \/ Administracion

Spec == Init /\ [][Next]_vars

\* One request at a time, while the catalogue and the calendar change
NextSecuencial == Peticion("s1") \/ Administracion \/ Catalogo

SpecSecuencial == Init /\ [][NextSecuencial]_vars

\* The service called by a holder that keeps one session across its calls
InitCompartida == InitDatos /\ por_peticion = FALSE

NextCompartida == NextSecuencial \/ Rollback("s1")

SpecCompartida == InitCompartida /\ [][NextCompartida]_vars

(***************************************************************************)
(* One caller at a time on stores with other populations: the status of a  *)
(* period changes between two calls, never inside one, and nothing else    *)
(* writes.                                                                 *)
(***************************************************************************)
PoblacionesLote == {{1, 2}, {1, 4}, {2, 4, 5}, {4, 5}, {1, 2, 3}, {3, 4}}

InitLote ==
    /\ empleado \in PoblacionesLote
    /\ nombre_tipo = [t \in TiposEmpleado |-> NombreTipoInicial(t)]
    /\ antiguedad = [e \in Plantilla |-> EmpleadoInicial(e).antiguedad]
    /\ periodo_nomina = [p \in Periodos |-> "ABIERTO"]
    /\ InitAlmacen
    /\ por_peticion = TRUE

NextLote ==
    \/ Peticion("s1")
    \/ /\ pc["s1"] = "idle"
       /\ \E p \in Periodos, estado \in EstadoPeriodoEnum : ActualizarPeriodo(p, estado)

SpecLote == InitLote /\ [][NextLote]_vars

(***************************************************************************)
(* CalculadoraNomina called directly: its static methods are pure, res     *)
(* holds the arguments of the last call with what it returned or raised.   *)
(***************************************************************************)
TiposCalculo == 1..5

EntradasCalculo ==
    {<<h, x, v>> : h \in {0 - 1, 0, 160}, x \in {0 - 1, 0, 10}, v \in {0 - 1, 0, 2000000100}}

Llamada(funcion, e, entradas, retorno) ==
    Resultado(funcion, retorno.error, NULL,
              [id_empleado |-> e, entradas |-> entradas, retorno |-> retorno])

LlamarSalarioBruto(e, entradas) ==
    /\ res' = Llamada("calcular_salario_bruto", e, entradas,
                      calcular_salario_bruto(e, entradas[1], entradas[2], entradas[3]))
    /\ UNCHANGED <<tablas, entorno, siguiente_id, pc, ctx, sucio, inactiva, por_peticion>>

LlamarNominaCompleta(e, entradas) ==
    /\ res' = Llamada("calcular_nomina_completa", e, entradas,
                      calcular_nomina_completa(e, entradas[1], entradas[2], entradas[3]))
    /\ UNCHANGED <<tablas, entorno, siguiente_id, pc, ctx, sucio, inactiva, por_peticion>>

\* date.today() of a call
Hoy == {<<2025, 2, 20>>, <<2025, 3, 14>>, <<2025, 3, 15>>, <<2025, 4, 10>>}

VentasCalculo == {0, 2000000000, 2000000100}

BrutosCalculo == {0, 200000000, 437500000}

\* The years of every employee on the day of the call
AntiguedadEl(hoy) ==
    [e \in Plantilla |-> calcular_anios_antiguedad(FechaIngreso(e), hoy)]

LlamarBonos(e, hoy, ventas_realizadas) ==
    /\ UNCHANGED <<tablas, empleado, nombre_tipo, periodo_nomina, siguiente_id, pc, ctx,
                   sucio, inactiva, por_peticion>>
    /\ antiguedad' = AntiguedadEl(hoy)
    /\ res' = Resultado("calcular_bonos", "", NULL,
                        [id_empleado |-> e, entradas |-> <<hoy, ventas_realizadas>>,
                         retorno |-> calcular_bonos(e, ventas_realizadas)'])

LlamarBeneficios(e, hoy) ==
    /\ UNCHANGED <<tablas, empleado, nombre_tipo, periodo_nomina, siguiente_id, pc, ctx,
                   sucio, inactiva, por_peticion>>
    /\ antiguedad' = AntiguedadEl(hoy)
    /\ res' = Resultado("calcular_beneficios", "", NULL,
                        [id_empleado |-> e, entradas |-> <<hoy>>,
                         retorno |-> calcular_beneficios(e)'])

LlamarDeducciones(e, hoy, salario_bruto) ==
    /\ UNCHANGED <<tablas, empleado, nombre_tipo, periodo_nomina, siguiente_id, pc, ctx,
                   sucio, inactiva, por_peticion>>
    /\ antiguedad' = AntiguedadEl(hoy)
    /\ res' = Resultado("calcular_deducciones", "", NULL,
                        [id_empleado |-> e, entradas |-> <<hoy, salario_bruto>>,
                         retorno |-> calcular_deducciones(e, salario_bruto)'])

InitCalculadora ==
    /\ empleado = Plantilla
    /\ nombre_tipo = [t \in TiposCalculo |-> NombreTipoInicial(t)]
    /\ antiguedad = [e \in Plantilla |-> EmpleadoInicial(e).antiguedad]
    /\ periodo_nomina = [p \in Periodos |-> "ABIERTO"]
    /\ InitAlmacen
    /\ por_peticion = TRUE

NextCalculadora ==
    \/ \E e \in Plantilla, entradas \in EntradasCalculo :
          \/ LlamarSalarioBruto(e, entradas)
          \/ LlamarNominaCompleta(e, entradas)
    \/ \E e \in Plantilla, hoy \in Hoy :
          \/ \E ventas_realizadas \in VentasCalculo : LlamarBonos(e, hoy, ventas_realizadas)
          \/ LlamarBeneficios(e, hoy)
          \/ \E salario_bruto \in BrutosCalculo : LlamarDeducciones(e, hoy, salario_bruto)

SpecCalculadora == InitCalculadora /\ [][NextCalculadora]_vars

(***************************************************************************)
(* Hourly employees end to end: one session creates and deletes payrolls   *)
(* of hourly employees over several hours and overtime hours.              *)
(***************************************************************************)
EmpleadosPorHoras == {2, 5}

EntradasPorHoras == {<<h, x, 0>> : h \in {0, 80, 160}, x \in {0, 10}}

InitPorHoras ==
    /\ empleado = EmpleadosPorHoras
    /\ nombre_tipo = [t \in TiposEmpleado |-> NombreTipoInicial(t)]
    /\ antiguedad = [e \in Plantilla |-> EmpleadoInicial(e).antiguedad]
    /\ periodo_nomina = [p \in Periodos |-> "ABIERTO"]
    /\ InitAlmacen
    /\ por_peticion = TRUE

NextPorHoras ==
    \/ \E e \in EmpleadosPorHoras, p \in Periodos, entradas \in EntradasPorHoras :
          CrearInicio("s1", e, p, entradas, "SYSTEM")
    \/ CrearFlush("s1")
    \/ CrearCommit("s1")
    \/ \E n \in IdsNomina, usuario \in Usuarios : EliminarAuditar("s1", n, usuario)
    \/ EliminarBorrar("s1")

SpecPorHoras == InitPorHoras /\ [][NextPorHoras]_vars

(***************************************************************************)
(* Two requests, each on its own session, that only create payrolls.       *)
(***************************************************************************)
EntradasConcurrentes == {<<160, 0, 0>>, <<160, 10, 0>>}

NextConcurrente ==
    \E s \in Sesiones :
        \/ \E e \in Empleados, p \in Periodos, entradas \in EntradasConcurrentes :
              CrearInicio(s, e, p, entradas, "SYSTEM")
        \/ CrearFlush(s)
        \/ CrearCommit(s)

SpecConcurrente == Init /\ [][NextConcurrente]_vars

(***************************************************************************)
(* The properties.                                                         *)
(***************************************************************************)
\* The committed nomina rows of employee e in period p
NominasDe(e, p) ==
    {n \in DOMAIN nomina : nomina[n].id_empleado = e /\ nomina[n].id_periodo = p}

\* C1: in every reachable state there is at most one payroll for each
\* (employee, period) pair.
C1_UnaPorEmpleadoPeriodo ==
    \A a, b \in DOMAIN nomina :
        (nomina[a].id_empleado = nomina[b].id_empleado
            /\ nomina[a].id_periodo = nomina[b].id_periodo) => a = b

\* A second insert for a pair was attempted and the pair still has its one payroll
C1_Testigo ==
    /\ res.op = "crear"
    /\ res.code = "IntegrityError:uk_nomina_empleado_periodo"
    /\ \E e \in Empleados, p \in Periodos : Cardinality(NominasDe(e, p)) = 1

\* C2: create for a pair that already has a payroll, with the employee and the
\* period existing and the period not closed, fails with NOMINA_DUPLICADA whose
\* details carry the id of the existing payroll, and writes nothing.
C2_DuplicadaSinEscrituras ==
    [][\A s \in Sesiones, e \in Empleados, p \in Periodos, entradas \in Entradas :
          (/\ e \in empleado
           /\ p \in DOMAIN periodo_nomina
           /\ periodo_nomina[p] \notin {"CERRADO", "PAGADO"}
           /\ NominasDe(e, p) # {}
           /\ CrearInicio(s, e, p, entradas, "SYSTEM"))
          => /\ res'.op = "crear"
             /\ res'.code = "NOMINA_DUPLICADA"
             /\ res'.id_nomina \in NominasDe(e, p)
             /\ UNCHANGED tablas
             /\ pc'[s] = "idle"]_vars

C2_Testigo ==
    /\ res.op = "crear"
    /\ res.code = "NOMINA_DUPLICADA"
    /\ res.id_nomina \in DOMAIN nomina
    /\ ~ esta_cerrado(nomina[res.id_nomina].id_periodo)

\* C3: of two concurrent create calls for the same pair that both pass the
\* duplicate pre-check, the one whose insert collides with the committed row of
\* the other fails with NOMINA_DUPLICADA (not a storage error) and writes nothing.
C3_ColisionEsDuplicada ==
    [][\A s \in Sesiones :
          (/\ pc[s] = "crear_flush"
           /\ ~ ctx[s].bulk
           /\ NominasDe(ctx[s].id_empleado, ctx[s].id_periodo) # {}
           /\ CrearFlush(s))
          => /\ res'.op = "crear"
             /\ res'.code = "NOMINA_DUPLICADA"
             /\ UNCHANGED tablas]_vars

\* Period p has status CERRADO or PAGADO
Cerrado(p) == p \in DOMAIN periodo_nomina /\ periodo_nomina[p] \in {"CERRADO", "PAGADO"}

\* Recalculate, delete and the bulk run answer PERIODO_CERRADO, and write nothing,
\* exactly when the period concerned is CERRADO or PAGADO
C4_OtrasOperaciones ==
    /\ \A s \in Sesiones, n \in IdsNomina, nomina_update \in Actualizaciones, usuario \in Usuarios :
          (n \in DOMAIN nomina /\ RecalcularNomina(s, n, nomina_update, usuario))
          => IF Cerrado(nomina[n].id_periodo)
             THEN res'.op = "recalcular" /\ res'.code = "PERIODO_CERRADO" /\ UNCHANGED tablas
             ELSE res'.code # "PERIODO_CERRADO"
    /\ \A s \in Sesiones, n \in IdsNomina, usuario \in Usuarios :
          (n \in DOMAIN nomina /\ EliminarAuditar(s, n, usuario))
          => IF Cerrado(nomina[n].id_periodo)
             THEN res'.op = "eliminar" /\ res'.code = "PERIODO_CERRADO" /\ UNCHANGED tablas
             ELSE res'.code # "PERIODO_CERRADO"
    /\ \A s \in Sesiones, p \in Periodos :
          (p \in DOMAIN periodo_nomina /\ BulkInicio(s, p, "SYSTEM"))
          => IF Cerrado(p)
             THEN res'.op = "bulk" /\ res'.code = "PERIODO_CERRADO" /\ UNCHANGED tablas
             ELSE res'.code # "PERIODO_CERRADO"

\* C4 (as stated): each of create, recalculate, delete and the bulk run, when the
\* period concerned is CERRADO or PAGADO at the call, fails with PERIODO_CERRADO
\* and leaves payrolls, lines and audit trail unchanged; ABIERTO and EN_PROCESO
\* do not trigger PERIODO_CERRADO.
C4_CerradoSiempre ==
    [][/\ C4_OtrasOperaciones
       /\ \A s \in Sesiones, e \in Empleados, p \in Periodos, entradas \in Entradas :
             (p \in DOMAIN periodo_nomina /\ CrearInicio(s, e, p, entradas, "SYSTEM"))
             => IF Cerrado(p)
                THEN res'.op = "crear" /\ res'.code = "PERIODO_CERRADO" /\ UNCHANGED tablas
                ELSE res'.code # "PERIODO_CERRADO"]_vars

\* C4 (amended): as above, where create answers PERIODO_CERRADO for a closed
\* period when the employee exists, and EMPLEADO_NOT_FOUND, whatever the status
\* of the period, when it does not; nothing is written in either case.
C4_CerradoConEmpleado ==
    [][/\ C4_OtrasOperaciones
       /\ \A s \in Sesiones, e \in Empleados, p \in Periodos, entradas \in Entradas :
             (p \in DOMAIN periodo_nomina /\ CrearInicio(s, e, p, entradas, "SYSTEM"))
             => IF e \notin empleado
                THEN res'.op = "crear" /\ res'.code = "EMPLEADO_NOT_FOUND" /\ UNCHANGED tablas
                ELSE IF Cerrado(p)
                THEN res'.op = "crear" /\ res'.code = "PERIODO_CERRADO" /\ UNCHANGED tablas
                ELSE res'.code # "PERIODO_CERRADO"]_vars

\* A recalculate was refused on a payroll of a PAGADO period
C4_Testigo ==
    /\ res.op = "recalcular"
    /\ res.code = "PERIODO_CERRADO"
    /\ res.id_nomina \in DOMAIN nomina
    /\ periodo_nomina[nomina[res.id_nomina].id_periodo] = "PAGADO"

\* The payrolls of period p with their header values and their lines
Agregados(p) ==
    [n \in {m \in DOMAIN nomina : nomina[m].id_periodo = p} |->
        <<nomina[n], detalle_bono[n], detalle_beneficio[n], detalle_deduccion[n]>>]

\* C5: as long as a period stays CERRADO or PAGADO, the set of its payrolls,
\* their header values and their lines do not change, whatever operation runs
\* (employee deletion with its cascade included).
C5_CerradoNoCambia ==
    [][\A p \in Periodos : (Cerrado(p) /\ Cerrado(p)') => Agregados(p)' = Agregados(p)]_vars

\* Sum of the monto column of the rows
SumaFilas(filas) ==
    LET RECURSIVE suma(_)
        suma(i) == IF i = 0 THEN 0 ELSE suma(i - 1) + filas[i].monto
    IN  suma(Len(filas))

\* The committed header n is seen with its CREAR entry and its lines
Completa(n) ==
    /\ auditoria_nomina[n] # << >>
    /\ auditoria_nomina[n][1].accion = "CREAR"
    /\ \A i \in 2..Len(auditoria_nomina[n]) : auditoria_nomina[n][i].accion # "CREAR"
    /\ Len(detalle_deduccion[n]) >= 2
    /\ SumaFilas(detalle_bono[n]) = nomina[n].total_bonos
    /\ SumaFilas(detalle_beneficio[n]) = nomina[n].total_beneficios
    /\ SumaFilas(detalle_deduccion[n]) = nomina[n].total_deducciones

\* C6: a successful create makes the header, its lines and exactly one CREAR
\* audit entry (valores_nuevos = the five totals) visible in one step, no state
\* shows a header without its lines or its CREAR entry, and a create that fails
\* leaves no row.
C6_CrearAtomico ==
    [][/\ \A n \in DOMAIN nomina' : Completa(n)'
       /\ \A n \in DOMAIN nomina' \ DOMAIN nomina :
             /\ Len(auditoria_nomina'[n]) = 1
             /\ auditoria_nomina'[n][1].valores_anteriores = Nada
             /\ auditoria_nomina'[n][1].valores_nuevos =
                  [salario_bruto |-> nomina'[n].salario_bruto,
                   salario_neto |-> nomina'[n].salario_neto,
                   total_bonos |-> nomina'[n].total_bonos,
                   total_beneficios |-> nomina'[n].total_beneficios,
                   total_deducciones |-> nomina'[n].total_deducciones]
       /\ (res'.op = "crear" /\ res'.code # "OK") => UNCHANGED tablas
       /\ \A s \in Sesiones :
             Len(ctx'[s].fallidas) > Len(ctx[s].fallidas) => UNCHANGED tablas]_vars

\* A create has committed while another session was inside a call
C6_Testigo ==
    /\ res.op = "crear"
    /\ res.code = "OK"
    /\ res.id_nomina \in DOMAIN nomina
    /\ \E s \in Sesiones : pc[s] # "idle"

\* C7: delete is one atomic unit: no state shows the ELIMINAR audit entry
\* committed while the payroll and its lines still exist.
C7_EliminarAtomico ==
    \A n \in DOMAIN nomina :
        \A i \in 1..Len(auditoria_nomina[n]) : auditoria_nomina[n][i].accion # "ELIMINAR"

\* C8: when recalculate fails after resolving the payroll (SALARIO_NEGATIVO or
\* VALIDACION_ERROR) nothing persists: the step writes nothing, and the row of
\* the payroll stays as it was also when a later operation on the same session
\* commits (it changes again only by a successful recalculate of that payroll).
C8_FalloNoPersiste ==
    [][/\ (res'.op = "recalcular" /\ res'.code \in {"SALARIO_NEGATIVO", "VALIDACION_ERROR"})
          => UNCHANGED tablas
       /\ \A s \in Sesiones :
             \A n \in (DOMAIN sucio[s] \cap DOMAIN nomina) \cap DOMAIN nomina' :
                nomina'[n] # nomina[n]
                => res'.op = "recalcular" /\ res'.code = "OK" /\ res'.id_nomina = n]_vars

\* The five totals and calculado_por of the stored header n
Cabecera(n) ==
    [salario_bruto |-> nomina[n].salario_bruto, total_bonos |-> nomina[n].total_bonos,
     total_beneficios |-> nomina[n].total_beneficios,
     total_deducciones |-> nomina[n].total_deducciones,
     salario_neto |-> nomina[n].salario_neto, calculado_por |-> nomina[n].calculado_por]

\* C9: after a successful recalculate the bonus, benefit and deduction lines of
\* the payroll are exactly the lines of the new computation (as the columns
\* store them), the five totals are the new totals and calculado_por is the
\* actor of the call.
C9_RecalculoReemplaza ==
    [][\A s \in Sesiones, n \in IdsNomina, nomina_update \in Actualizaciones,
          usuario \in Usuarios :
          (/\ res'.op = "recalcular"
           /\ res'.code = "OK"
           /\ RecalcularNomina(s, n, nomina_update, usuario))
          => LET entradas == AplicarUpdate(<<nomina[n].horas_trabajadas, nomina[n].horas_extras,
                                             nomina[n].ventas_realizadas>>, nomina_update)
                 c == calcular_nomina_completa(nomina[n].id_empleado,
                                               entradas[1], entradas[2], entradas[3])
             IN  /\ detalle_bono'[n] = FilasDetalle(n, c.detalles_bonos)
                 /\ detalle_beneficio'[n] = FilasDetalle(n, c.detalles_beneficios)
                 /\ detalle_deduccion'[n] = FilasDetalle(n, c.detalles_deducciones)
                 /\ Cabecera(n)' =
                      [salario_bruto |-> c.salario_bruto, total_bonos |-> c.total_bonos,
                       total_beneficios |-> c.total_beneficios,
                       total_deducciones |-> c.total_deducciones,
                       salario_neto |-> c.salario_neto, calculado_por |-> usuario]]_vars

\* A recalculate by "ana" replaced the lines of a payroll created by "SYSTEM"
\* with lines of other amounts
C9_Testigo ==
    /\ res.op = "recalcular"
    /\ res.code = "OK"
    /\ res.id_nomina \in DOMAIN nomina
    /\ nomina[res.id_nomina].calculado_por = "ana"
    /\ LET a == auditoria_nomina[res.id_nomina]
       IN  /\ a[1].usuario = "SYSTEM"
           /\ a[Len(a)].valores_nuevos.salario_neto # a[Len(a)].valores_anteriores.salario_neto

\* The last operation on payroll n was a recalculate, and this call gives the
\* inputs the payroll already has
SegundoRecalculo(n, nomina_update) ==
    /\ n \in DOMAIN nomina
    /\ auditoria_nomina[n] # << >>
    /\ auditoria_nomina[n][Len(auditoria_nomina[n])].accion = "RECALCULAR"
    /\ AplicarUpdate(<<nomina[n].horas_trabajadas, nomina[n].horas_extras,
                       nomina[n].ventas_realizadas>>, nomina_update)
         = <<nomina[n].horas_trabajadas, nomina[n].horas_extras, nomina[n].ventas_realizadas>>

\* The totals and the lines of payroll n
TotalesYLineas(n) ==
    <<nomina[n].salario_bruto, nomina[n].total_bonos, nomina[n].total_beneficios,
      nomina[n].total_deducciones, nomina[n].salario_neto,
      detalle_bono[n], detalle_beneficio[n], detalle_deduccion[n]>>

\* C10 (as stated): a recalculate that follows a recalculate of the same payroll
\* with identical inputs leaves the totals and the lines as the first left them,
\* and appends exactly one audit entry.
C10_IdempotenteSiempre ==
    [][\A s \in Sesiones, n \in IdsNomina, nomina_update \in Actualizaciones,
          usuario \in Usuarios :
          (/\ res'.op = "recalcular"
           /\ res'.code = "OK"
           /\ SegundoRecalculo(n, nomina_update)
           /\ RecalcularNomina(s, n, nomina_update, usuario))
          => /\ TotalesYLineas(n)' = TotalesYLineas(n)
             /\ Len(auditoria_nomina'[n]) = Len(auditoria_nomina[n]) + 1]_vars

\* C10 (amended): the same, when the second recalculate follows the first with
\* nothing in between, so that the type of the employee and its years of tenure
\* at today's date are those of the first call.
C10_IdempotenteSeguido ==
    [][\A s \in Sesiones, n \in IdsNomina, nomina_update \in Actualizaciones,
          usuario \in Usuarios :
          (/\ res.op = "recalcular" /\ res.code = "OK" /\ res.id_nomina = n
           /\ res'.op = "recalcular" /\ res'.code = "OK"
           /\ SegundoRecalculo(n, nomina_update)
           /\ RecalcularNomina(s, n, nomina_update, usuario))
          => /\ TotalesYLineas(n)' = TotalesYLineas(n)
             /\ Len(auditoria_nomina'[n]) = Len(auditoria_nomina[n]) + 1
             /\ auditoria_nomina'[n][Len(auditoria_nomina'[n])].accion = "RECALCULAR"]_vars

\* Two recalculates in a row, the second with the inputs and the results of the first
C10_Testigo ==
    /\ res.op = "recalcular"
    /\ res.code = "OK"
    /\ res.id_nomina \in DOMAIN nomina
    /\ LET a == auditoria_nomina[res.id_nomina]
       IN  /\ Len(a) >= 3
           /\ a[Len(a) - 1].accion = "RECALCULAR"
           /\ a[Len(a)].accion = "RECALCULAR"
           /\ a[Len(a)].valores_anteriores = a[Len(a)].valores_nuevos
           /\ a[Len(a) - 1].valores_nuevos = a[Len(a)].valores_nuevos

\* C11: a successful recalculate stores, for each of horas_trabajadas,
\* horas_extras and ventas_realizadas, the value of the request when the field is
\* provided and the value stored before the call when it is not, and the totals
\* it stores are those of the computation over these three values.
C11_SoloCamposProvistos ==
    [][\A s \in Sesiones, n \in IdsNomina, nomina_update \in Actualizaciones,
          usuario \in Usuarios :
          (/\ res'.op = "recalcular"
           /\ res'.code = "OK"
           /\ RecalcularNomina(s, n, nomina_update, usuario))
          => LET h == IF nomina_update.horas_trabajadas = NULL
                      THEN nomina[n].horas_trabajadas ELSE nomina_update.horas_trabajadas
                 x == IF nomina_update.horas_extras = NULL
                      THEN nomina[n].horas_extras ELSE nomina_update.horas_extras
                 v == IF nomina_update.ventas_realizadas = NULL
                      THEN nomina[n].ventas_realizadas ELSE nomina_update.ventas_realizadas
                 c == calcular_nomina_completa(nomina[n].id_empleado, h, x, v)
             IN  /\ nomina'[n].horas_trabajadas = h
                 /\ nomina'[n].horas_extras = x
                 /\ nomina'[n].ventas_realizadas = v
                 /\ nomina'[n].salario_bruto = c.salario_bruto
                 /\ nomina'[n].total_deducciones = c.total_deducciones
                 /\ nomina'[n].salario_neto = c.salario_neto]_vars

\* A recalculate that provided horas_extras only: the 160 hours stored before are
\* kept and paid with the 10 new overtime hours
C11_Testigo ==
    /\ res.op = "recalcular"
    /\ res.code = "OK"
    /\ res.id_nomina \in DOMAIN nomina
    /\ nomina[res.id_nomina].horas_trabajadas = 160
    /\ nomina[res.id_nomina].horas_extras = 10
    /\ nomina[res.id_nomina].ventas_realizadas = 0
    /\ nomina[res.id_nomina].salario_bruto = 437500000

\* The last entry of the audit trail of payroll n has action accion
UltimaAccion(auditoria, n, accion) ==
    /\ auditoria[n] # << >>
    /\ auditoria[n][Len(auditoria[n])].accion = accion

\* C12: the audit trail is append-only with one entry per lifecycle action: no
\* step removes or changes an entry written earlier, a successful create,
\* recalculate or delete leaves exactly one new entry with its action (CREAR,
\* RECALCULAR, ELIMINAR) at the end of the trail of its payroll, and a call that
\* fails adds none.
C12_AuditoriaSoloCrece ==
    [][/\ \A n \in IdsNomina :
             /\ Len(auditoria_nomina'[n]) >= Len(auditoria_nomina[n])
             /\ SubSeq(auditoria_nomina'[n], 1, Len(auditoria_nomina[n])) = auditoria_nomina[n]
       /\ (res'.op = "crear" /\ res'.code = "OK")
             => /\ Len(auditoria_nomina'[res'.id_nomina]) = 1
                /\ UltimaAccion(auditoria_nomina', res'.id_nomina, "CREAR")
       /\ (res'.op = "recalcular" /\ res'.code = "OK")
             => /\ Len(auditoria_nomina'[res'.id_nomina])
                    = Len(auditoria_nomina[res'.id_nomina]) + 1
                /\ UltimaAccion(auditoria_nomina', res'.id_nomina, "RECALCULAR")
       /\ (res'.op = "eliminar" /\ res'.code = "True")
             => UltimaAccion(auditoria_nomina', res'.id_nomina, "ELIMINAR")
       /\ (res'.op \in {"crear", "recalcular", "eliminar"} /\ res'.code \notin {"OK", "True"})
             => auditoria_nomina' = auditoria_nomina]_vars

\* C13: eliminar_nomina for an id that has no payroll returns False, raises
\* nothing and writes nothing: no audit entry is added, no payroll and no line
\* changes.
C13_EliminarInexistente ==
    [][\A s \in Sesiones, n \in IdsNomina, usuario \in Usuarios :
          (n \notin DOMAIN nomina /\ EliminarAuditar(s, n, usuario))
          => /\ res'.op = "eliminar"
             /\ res'.code = "False"
             /\ res'.id_nomina = n
             /\ UNCHANGED tablas
             /\ pc'[s] = "idle"]_vars

\* A delete of an id that no payroll ever had returned False while the store
\* holds a payroll
C13_Testigo ==
    /\ res.op = "eliminar"
    /\ res.code = "False"
    /\ res.id_nomina >= siguiente_id
    /\ DOMAIN nomina # {}

\* The employees of the store with status ACTIVO
Activos == {e \in empleado : EmpleadoInicial(e).estado = "ACTIVO"}

\* The messages of the two duplicate checks
RazonDuplicada == {"Ya existe nomina para este periodo", "NOMINA_DUPLICADA"}

\* The active employees whose payroll for period p was not created by the run
\* that returns resultados: it was there when the run started
ConNominaPrevia(p, resultados) ==
    {e \in Activos :
        \E n \in NominasDe(e, p) :
            \A i \in 1..Len(resultados.exitosas) : resultados.exitosas[i].nomina_id # n}

C15_FalloAislado ==
    [][\A s \in Sesiones :
          /\ (ctx[s].bulk /\ ~ ctx'[s].bulk)
                => /\ res'.op = "bulk"
                   /\ res'.code = "OK"
                   /\ Len(res'.resultados.exitosas) + Len(res'.resultados.fallidas)
                        = res'.resultados.total_empleados
          /\ (ctx[s].bulk /\ pc[s] = "crear_flush" /\ pc'[s] \notin {"crear_flush", "crear_commit"})
                => /\ ctx'[s].bulk
                   /\ ctx'[s].cola = Tail(ctx[s].cola)
                   /\ ctx'[s].fallidas # << >>
                   /\ ctx'[s].fallidas[Len(ctx'[s].fallidas)].empleado_id = Head(ctx[s].cola)
                   /\ UNCHANGED tablas
          /\ (/\ ctx[s].bulk /\ pc[s] = "bulk" /\ ctx[s].cola # << >>
              /\ Head(ctx[s].cola) \in empleado
              /\ ~ Cerrado(ctx[s].id_periodo)
              /\ NominasDe(Head(ctx[s].cola), ctx[s].id_periodo) = {}
              /\ calcular_nomina_completa(Head(ctx[s].cola), 0, 0, 0).error = ""
              /\ BulkEmpleado(s))
                => pc'[s] = "crear_flush"]_vars

\* How many entries of the list name employee e
Apariciones(lista, e) == Cardinality({i \in 1..Len(lista) : lista[i].empleado_id = e})

NetoCalculado(e, entradas) ==
    LET bruto == calcular_salario_bruto(e, entradas[1], entradas[2], entradas[3]).valor
    IN  bruto + calcular_bonos(e, entradas[3]).total + calcular_beneficios(e).total
          - calcular_deducciones(e, bruto).total

BrutoValido(e, entradas) ==
    calcular_salario_bruto(e, entradas[1], entradas[2], entradas[3]).error = ""

\* C17: every payroll row that is ever committed has salario_neto >= 0; when the
\* net computed for a create or a recalculate is negative the call fails with
\* SALARIO_NEGATIVO and writes nothing.
C17_NetoNoNegativo ==
    [][/\ \A n \in DOMAIN nomina' : nomina'[n].salario_neto >= 0
       /\ \A s \in Sesiones, e \in empleado, p \in Periodos, entradas \in Entradas :
             (/\ ~ Cerrado(p)
              /\ NominasDe(e, p) = {}
              /\ BrutoValido(e, entradas)
              /\ NetoCalculado(e, entradas) < 0
              /\ CrearInicio(s, e, p, entradas, "SYSTEM"))
             => /\ res'.op = "crear"
                /\ res'.code = "SALARIO_NEGATIVO"
                /\ UNCHANGED tablas
       /\ \A s \in Sesiones, n \in IdsNomina, nomina_update \in Actualizaciones,
             usuario \in Usuarios :
             (/\ n \in DOMAIN nomina
              /\ ~ Cerrado(nomina[n].id_periodo)
              /\ LET entradas == AplicarUpdate(<<nomina[n].horas_trabajadas,
                                                 nomina[n].horas_extras,
                                                 nomina[n].ventas_realizadas>>, nomina_update)
                 IN  /\ BrutoValido(nomina[n].id_empleado, entradas)
                     /\ NetoCalculado(nomina[n].id_empleado, entradas) < 0
              /\ RecalcularNomina(s, n, nomina_update, usuario))
             => /\ res'.op = "recalcular"
                /\ res'.code = "SALARIO_NEGATIVO"
                /\ UNCHANGED tablas]_vars

\* A recalculate whose net would be negative was refused, and the payroll keeps
\* the inputs and the net it had
C17_Testigo ==
    /\ res.op = "recalcular"
    /\ res.code = "SALARIO_NEGATIVO"
    /\ res.id_nomina \in DOMAIN nomina
    /\ nomina[res.id_nomina].horas_extras = 0
    /\ nomina[res.id_nomina].salario_neto = 0
    /\ NetoCalculado(nomina[res.id_nomina].id_empleado, <<0, 10, 0>>) < 0

CamposCalculo ==
    {"salario_bruto", "total_bonos", "total_beneficios", "total_deducciones", "salario_neto",
     "detalles_bonos", "detalles_beneficios", "detalles_deducciones"}

\* C18: a full computation that returns gives the gross of the employee over the
\* inputs, the bonuses computed from the sales, the benefits, the deductions
\* computed from that gross, and net = gross + bonuses + benefits - deductions,
\* with the five totals and the three line collections in the result.
C18_NominaCompleta ==
    (res.op = "calcular_nomina_completa" /\ res.code = "")
    => LET r == res.resultados.retorno
           e == res.resultados.id_empleado
           entradas == res.resultados.entradas
       IN  /\ CamposCalculo \subseteq DOMAIN r
           /\ r.salario_bruto
                = calcular_salario_bruto(e, entradas[1], entradas[2], entradas[3]).valor
           /\ r.detalles_bonos = calcular_bonos(e, entradas[3]).detalles
           /\ r.total_bonos = calcular_bonos(e, entradas[3]).total
           /\ r.detalles_beneficios = calcular_beneficios(e).detalles
           /\ r.total_beneficios = calcular_beneficios(e).total
           /\ r.detalles_deducciones = calcular_deducciones(e, r.salario_bruto).detalles
           /\ r.total_deducciones = calcular_deducciones(e, r.salario_bruto).total
           /\ \A i \in DOMAIN r.detalles_deducciones :
                 r.detalles_deducciones[i].base_calculo = r.salario_bruto
           /\ r.salario_neto
                = r.salario_bruto + r.total_bonos + r.total_beneficios - r.total_deducciones

\* A commission employee whose sales earn a bonus: the result carries a bonus, a
\* benefit and the deductions, all different from zero
C18_Testigo ==
    /\ res.op = "calcular_nomina_completa"
    /\ res.code = ""
    /\ res.resultados.entradas[3] > 0
    /\ res.resultados.retorno.total_bonos > 0
    /\ res.resultados.retorno.total_beneficios > 0
    /\ res.resultados.retorno.total_deducciones > 0
    /\ res.resultados.retorno.salario_bruto > 0

\* The attributes and the type name of the employee of the call that just ended
FichaLlamada == EmpleadoInicial(res.resultados.id_empleado)

TipoLlamada == nombre_tipo[FichaLlamada.id_tipo_empleado]

\* C19: the gross is chosen by the employee type.  ASALARIADO and TEMPORAL give
\* salario_base whatever the hours and the sales; POR_HORAS gives
\* horas_trabajadas x tarifa_hora + horas_extras x tarifa_hora x 1.5 whatever the
\* salario_base; POR_COMISION gives salario_base + ventas_realizadas x
\* porcentaje_comision / 100.  Amounts are in cents and percentages in
\* thousandths of a percent; the equations are written without fractions and so
\* that no product leaves 32 bits.
C19_BrutoPorTipo ==
    (res.op = "calcular_salario_bruto")
    => LET r == res.resultados.retorno
           entradas == res.resultados.entradas
       IN  /\ TipoLlamada \in {"ASALARIADO", "TEMPORAL"}
                => r.error = "" /\ r.valor = FichaLlamada.salario_base
           /\ (TipoLlamada = "POR_HORAS" /\ entradas[1] >= 0 /\ entradas[2] >= 0)
                => /\ r.error = ""
                   /\ 2 * r.valor = 2 * entradas[1] * FichaLlamada.tarifa_hora
                                      + 3 * entradas[2] * FichaLlamada.tarifa_hora
           /\ (TipoLlamada = "POR_COMISION" /\ entradas[3] >= 0)
                => /\ r.error = ""
                   /\ 100000 % FichaLlamada.porcentaje_comision = 0
                   /\ (r.valor - FichaLlamada.salario_base)
                         * (100000 \div FichaLlamada.porcentaje_comision) = entradas[3]

\* An hourly employee who also has a salario_base, with ordinary hours and
\* overtime: the gross is not zero and the salario_base is not part of it
C19_Testigo ==
    /\ res.op = "calcular_salario_bruto"
    /\ res.code = ""
    /\ TipoLlamada = "POR_HORAS"
    /\ FichaLlamada.salario_base > 0
    /\ res.resultados.entradas[1] > 0
    /\ res.resultados.entradas[2] > 0
    /\ res.resultados.retorno.valor > 0

TiposConocidos == {"ASALARIADO", "POR_HORAS", "POR_COMISION", "TEMPORAL"}

\* The code of the error raised for negative hours or negative sales
CodigoEntradaInvalida == "VALIDACION_ERROR"

\* C20: the gross of an hourly employee with negative hours or negative overtime,
\* and of a commission employee with negative sales, fails with the
\* invalid-input error; the gross of an employee whose type is none of the four
\* known ones fails with an error of another kind than the invalid-input error.
C20_ErroresTipados ==
    (res.op = "calcular_salario_bruto")
    => LET r == res.resultados.retorno
           entradas == res.resultados.entradas
       IN  /\ (TipoLlamada = "POR_HORAS" /\ (entradas[1] < 0 \/ entradas[2] < 0))
                => r.error = CodigoEntradaInvalida
           /\ (TipoLlamada = "POR_COMISION" /\ entradas[3] < 0)
                => r.error = CodigoEntradaInvalida
           /\ TipoLlamada \notin TiposConocidos
                => r.error \notin {"", CodigoEntradaInvalida}

\* The fifth anniversary of the hiring date has been reached on the day hoy
QuintoAniversario(e, hoy) ==
    LET f == FechaIngreso(e)
    IN  \/ hoy[1] > f[1] + 5
        \/ hoy[1] = f[1] + 5 /\ hoy[2] > f[2]
        \/ hoy[1] = f[1] + 5 /\ hoy[2] = f[2] /\ hoy[3] >= f[3]

LineasDeTipo(lineas, tipo) == {i \in DOMAIN lineas : lineas[i].tipo = tipo}

\* C21: the bonuses of a salaried employee hold exactly one BONO_ANTIGUEDAD line
\* of 10% of salario_base once the fifth anniversary of the hiring date has been
\* reached and none before; employees of the other types never get that line.
C21_BonoAntiguedad ==
    (res.op = "calcular_bonos")
    => LET lineas == res.resultados.retorno.detalles
           hoy == res.resultados.entradas[1]
           antig == LineasDeTipo(lineas, "BONO_ANTIGUEDAD")
       IN  IF TipoLlamada = "ASALARIADO" /\ QuintoAniversario(res.resultados.id_empleado, hoy)
           THEN /\ Cardinality(antig) = 1
                /\ \A i \in antig : 10 * lineas[i].monto = FichaLlamada.salario_base
           ELSE antig = {}

\* A salaried employee on the very day of the fifth anniversary gets the bonus
C21_Testigo ==
    /\ res.op = "calcular_bonos"
    /\ TipoLlamada = "ASALARIADO"
    /\ res.resultados.entradas[1] = <<FechaIngreso(res.resultados.id_empleado)[1] + 5, 3, 15>>
    /\ LineasDeTipo(res.resultados.retorno.detalles, "BONO_ANTIGUEDAD") # {}
    /\ res.resultados.retorno.total > 0

\* C22: the bonuses of a commission employee hold a BONO_VENTAS line of 3% of the
\* sales exactly when the sales are above 20,000,000 (2000000000 cents); at
\* 20,000,000 or below there is no bonus line and the total is 0; employees of the
\* other types never get that line.
C22_BonoVentas ==
    (res.op = "calcular_bonos")
    => LET lineas == res.resultados.retorno.detalles
           ventas == res.resultados.entradas[2]
           deVentas == LineasDeTipo(lineas, "BONO_VENTAS")
       IN  /\ (TipoLlamada = "POR_COMISION" /\ ventas > 2000000000)
                => /\ Cardinality(deVentas) = 1
                   /\ ventas % 100 = 0
                   /\ \A i \in deVentas : lineas[i].monto = 3 * (ventas \div 100)
           /\ (TipoLlamada = "POR_COMISION" /\ ventas <= 2000000000)
                => lineas = << >> /\ res.resultados.retorno.total = 0
           /\ TipoLlamada # "POR_COMISION" => deVentas = {}

\* A commission employee who sold one peso more than the limit gets the bonus
C22_Testigo ==
    /\ res.op = "calcular_bonos"
    /\ TipoLlamada = "POR_COMISION"
    /\ res.resultados.entradas[2] = 2000000100
    /\ res.resultados.retorno.total = 60000003
    /\ Len(res.resultados.retorno.detalles) = 1

\* C23: the benefits of a salaried or commission employee are exactly one
\* BONO_ALIMENTACION line of 1,000,000 (100000000 cents); the benefits of an
\* hourly employee, whatever the years and the savings-fund flag, and of a
\* temporary employee are no line and a total of 0.
C23_Beneficios ==
    (res.op = "calcular_beneficios")
    => LET r == res.resultados.retorno
       IN  /\ TipoLlamada \in {"ASALARIADO", "POR_COMISION"}
                => /\ Len(r.detalles) = 1
                   /\ r.detalles[1].tipo = "BONO_ALIMENTACION"
                   /\ r.detalles[1].monto = 100000000
                   /\ r.total = 100000000
           /\ TipoLlamada \in {"POR_HORAS", "TEMPORAL"}
                => r.detalles = << >> /\ r.total = 0

\* An hourly employee with a year of service who accepts the savings fund gets
\* no benefit line
C23_Testigo ==
    /\ res.op = "calcular_beneficios"
    /\ TipoLlamada = "POR_HORAS"
    /\ FichaLlamada.acepta_fondo_ahorro
    /\ antiguedad[res.resultados.id_empleado] >= 1
    /\ res.resultados.retorno.detalles = << >>
    /\ res.resultados.retorno.total = 0

\* The n-th anniversary of the hiring date has been reached on the day hoy
AniversarioCumplido(e, hoy, n) ==
    LET f == FechaIngreso(e)
    IN  \/ hoy[1] > f[1] + n
        \/ hoy[1] = f[1] + n /\ hoy[2] > f[2]
        \/ hoy[1] = f[1] + n /\ hoy[2] = f[2] /\ hoy[3] >= f[3]

\* C24: the deductions always hold one SEGURIDAD_SOCIAL_PENSION line of 4% of the
\* gross and one ARL line of 0.522% of the gross; they hold a
\* FONDO_AHORRO_EMPLEADO line of 2% of the gross exactly when the employee is
\* hourly, has a whole year of service and accepts the savings fund; every line
\* records its percentage and the gross as base_calculo.  Percentages are in
\* thousandths of a percent, and the gross is a multiple of 1,000.00 so that the
\* amounts are exact.
C24_Deducciones ==
    (res.op = "calcular_deducciones")
    => LET lineas == res.resultados.retorno.detalles
           hoy == res.resultados.entradas[1]
           bruto == res.resultados.entradas[2]
           ss == LineasDeTipo(lineas, "SEGURIDAD_SOCIAL_PENSION")
           arl == LineasDeTipo(lineas, "ARL")
           fondo == LineasDeTipo(lineas, "FONDO_AHORRO_EMPLEADO")
           conFondo == /\ TipoLlamada = "POR_HORAS"
                       /\ AniversarioCumplido(res.resultados.id_empleado, hoy, 1)
                       /\ FichaLlamada.acepta_fondo_ahorro
       IN  /\ bruto % 100000 = 0
           /\ Cardinality(ss) = 1
           /\ \A i \in ss : /\ lineas[i].monto = 4000 * (bruto \div 100000)
                             /\ lineas[i].porcentaje_aplicado = 4000
           /\ Cardinality(arl) = 1
           /\ \A i \in arl : /\ lineas[i].monto = 522 * (bruto \div 100000)
                              /\ lineas[i].porcentaje_aplicado = 522
           /\ Cardinality(fondo) = IF conFondo THEN 1 ELSE 0
           /\ \A i \in fondo : /\ lineas[i].monto = 2000 * (bruto \div 100000)
                                /\ lineas[i].porcentaje_aplicado = 2000
           /\ ss \cup arl \cup fondo = DOMAIN lineas
           /\ \A i \in DOMAIN lineas : lineas[i].base_calculo = bruto

\* An hourly employee who accepts the savings fund, on the day of the first
\* anniversary: three deduction lines
C24_Testigo ==
    /\ res.op = "calcular_deducciones"
    /\ TipoLlamada = "POR_HORAS"
    /\ res.resultados.entradas[1] = <<FechaIngreso(res.resultados.id_empleado)[1] + 1, 3, 15>>
    /\ res.resultados.entradas[2] > 0
    /\ Len(res.resultados.retorno.detalles) = 3

\* The payrolls of an hourly employee paid 25,000 an hour, with two years of
\* service, who accepts the savings fund, for 160 hours and 10 overtime hours
NominasDelCaso ==
    {n \in DOMAIN nomina :
        /\ tipo_nombre(nomina[n].id_empleado) = "POR_HORAS"
        /\ EmpleadoInicial(nomina[n].id_empleado).tarifa_hora = 2500000
        /\ EmpleadoInicial(nomina[n].id_empleado).acepta_fondo_ahorro
        /\ antiguedad[nomina[n].id_empleado] = 2
        /\ nomina[n].horas_trabajadas = 160
        /\ nomina[n].horas_extras = 10}

\* C25: the payroll created for that employee in an open period has gross
\* 4,375,000, no bonus line, no benefit line, three deduction lines of 175,000,
\* 22,837.50 and 87,500 that total 285,337.50, and net 4,089,662.50 (in cents).
C25_CasoPorHoras ==
    \A n \in NominasDelCaso :
        /\ nomina[n].salario_bruto = 437500000
        /\ nomina[n].total_bonos = 0
        /\ nomina[n].total_beneficios = 0
        /\ De(detalle_bono, n) = << >>
        /\ De(detalle_beneficio, n) = << >>
        /\ Len(De(detalle_deduccion, n)) = 3
        /\ {<<d.tipo, d.monto>> : d \in {De(detalle_deduccion, n)[i] : i \in 1..3}}
             = {<<"SEGURIDAD_SOCIAL_PENSION", 17500000>>, <<"ARL", 2283750>>,
                <<"FONDO_AHORRO_EMPLEADO", 8750000>>}
        /\ nomina[n].total_deducciones = 28533750
        /\ nomina[n].salario_neto = 408966250

\* The create of the case has just returned its payroll
C25_Testigo ==
    /\ res.op = "crear"
    /\ res.code = "OK"
    /\ res.id_nomina \in NominasDelCaso
    /\ periodo_nomina[nomina[res.id_nomina].id_periodo] = "ABIERTO"

\* The (employee, period) pair of the create a session is in
ParDe(s) == <<ctx[s].id_empleado, ctx[s].id_periodo>>

EnCrear(s) == pc[s] \in {"crear_flush", "crear_commit"}

\* The rows a create of the inputs of payroll n, run alone, writes for it
FilasDeUnaSola(n) ==
    LET f == nomina[n]
        entradas == <<f.horas_trabajadas, f.horas_extras, f.ventas_realizadas>>
        c == calcular_nomina_completa(f.id_empleado, entradas[1], entradas[2], entradas[3])
    IN  /\ f = FilaNomina(f.id_empleado, f.id_periodo, entradas, c, "SYSTEM")
        /\ De(detalle_bono, n) = FilasDetalle(n, c.detalles_bonos)
        /\ De(detalle_beneficio, n) = FilasDetalle(n, c.detalles_beneficios)
        /\ De(detalle_deduccion, n) = FilasDetalle(n, c.detalles_deducciones)
        /\ Len(De(auditoria_nomina, n)) = 1
        /\ De(auditoria_nomina, n)[1].accion = "CREAR"

\* C26: two creates on different (employee, period) pairs, each on its own
\* session, do not conflict.  A step of a create whose pair is neither in the
\* store nor the pair of the other session never fails and leaves the rows of
\* the other payrolls alone; and every payroll in the store has the rows that
\* its create writes when it runs alone, under consecutive ids.
C26_ParesDistintos ==
    [][/\ \A s \in Sesiones :
             (/\ EnCrear(s)
              /\ pc'[s] # pc[s]
              /\ NominasDe(ParDe(s)[1], ParDe(s)[2]) = {}
              /\ \A t \in Sesiones \ {s} : EnCrear(t) => ParDe(t) # ParDe(s))
             => /\ pc'[s] = "idle" => (res'.op = "crear" /\ res'.code = "OK")
                /\ pc'[s] # "idle" => pc'[s] = "crear_commit"
                /\ \A m \in DOMAIN nomina :
                      /\ m \in DOMAIN nomina' /\ nomina'[m] = nomina[m]
                      /\ De(detalle_deduccion, m)' = De(detalle_deduccion, m)
                      /\ De(auditoria_nomina, m)' = De(auditoria_nomina, m)
       /\ \A n \in DOMAIN nomina' : FilasDeUnaSola(n)' /\ n < siguiente_id'
      ]_vars

\* The two creates overlap: the session that flushed first commits last, and
\* the other one has just returned its payroll
C26_Testigo ==
    /\ res.op = "crear"
    /\ res.code = "OK"
    /\ DOMAIN nomina = {2}
    /\ \E s \in Sesiones :
          /\ pc[s] = "crear_commit"
          /\ ctx[s].id_nomina = 1
          /\ ctx[s].id_empleado # nomina[2].id_empleado

\* The first precondition of a create of (e, p) that fails, or "" when all hold
PrimeraQueFalla(e, p) ==
    IF e \notin empleado THEN "EMPLEADO_NOT_FOUND"
    ELSE IF p \notin DOMAIN periodo_nomina THEN "PERIODO_NOT_FOUND"
    ELSE IF Cerrado(p) THEN "PERIODO_CERRADO"
    ELSE IF NominasDe(e, p) # {} THEN "NOMINA_DUPLICADA"
    ELSE ""

\* C27: a create reports the first precondition that fails, in the order
\* employee missing, period missing, period closed, payroll duplicated, and
\* writes nothing; an error of the computation is reported only when the four
\* preconditions hold.
C27_OrdenDePrecondiciones ==
    [][\A s \in Sesiones, e \in Plantilla, p \in Periodos \cup {2}, entradas \in Entradas :
         CrearInicio(s, e, p, entradas, "SYSTEM")
         => /\ PrimeraQueFalla(e, p) # ""
                 => /\ res'.op = "crear"
                    /\ res'.code = PrimeraQueFalla(e, p)
                    /\ UNCHANGED tablas
            /\ (res'.op = "crear" /\ res'.code \in {"VALIDACION_ERROR", "SALARIO_NEGATIVO"})
                 => PrimeraQueFalla(e, p) = "" /\ UNCHANGED tablas]_vars

\* A create for a missing employee was refused with EMPLEADO_NOT_FOUND although
\* the only period is closed and holds a payroll
C27_Testigo ==
    /\ res.op = "crear"
    /\ res.code = "EMPLEADO_NOT_FOUND"
    /\ Cerrado(1)
    /\ DOMAIN nomina # {}

RECURSIVE SumaDeFilas(_)
SumaDeFilas(filas) ==
    IF filas = << >> THEN 0 ELSE Head(filas).monto + SumaDeFilas(Tail(filas))

UnaPorTipo(filas) ==
    \A i, j \in DOMAIN filas : filas[i].tipo = filas[j].tipo => i = j

\* C28: for every payroll in the store, each total of the header is the sum of
\* the amounts of its lines, each collection of lines holds at most one line of
\* each type, and salario_neto = salario_bruto + total_bonos + total_beneficios
\* - total_deducciones.
C28_TotalesYLineas ==
    \A n \in DOMAIN nomina :
        /\ nomina[n].total_bonos = SumaDeFilas(De(detalle_bono, n))
        /\ nomina[n].total_beneficios = SumaDeFilas(De(detalle_beneficio, n))
        /\ nomina[n].total_deducciones = SumaDeFilas(De(detalle_deduccion, n))
        /\ UnaPorTipo(De(detalle_bono, n))
        /\ UnaPorTipo(De(detalle_beneficio, n))
        /\ UnaPorTipo(De(detalle_deduccion, n))
        /\ nomina[n].salario_neto
             = nomina[n].salario_bruto + nomina[n].total_bonos
                 + nomina[n].total_beneficios - nomina[n].total_deducciones

\* A payroll of an hourly employee made by a bulk run and then recalculated with
\* overtime: its lines were replaced and its totals are not zero
C28_Testigo ==
    /\ res.op = "recalcular"
    /\ res.code = "OK"
    /\ res.id_nomina \in DOMAIN nomina
    /\ nomina[res.id_nomina].horas_trabajadas = 0
    /\ nomina[res.id_nomina].horas_extras = 10
    /\ nomina[res.id_nomina].total_deducciones > 0
    /\ Len(De(detalle_deduccion, res.id_nomina)) = 2

\* C29: when eliminar_nomina returns True the payroll is gone and no audit entry
\* of it is left in the store, not even the ELIMINAR entry that the call had
\* committed just before it deleted the payroll.
C29_CascadaAuditoria ==
    [][(res'.op = "eliminar" /\ res'.code = "True")
       => LET n == res'.id_nomina
          IN  /\ \E i \in DOMAIN De(auditoria_nomina, n) :
                    De(auditoria_nomina, n)[i].accion = "ELIMINAR"
              /\ n \notin DOMAIN nomina'
              /\ auditoria_nomina'[n] = << >>]_vars

\* A payroll was deleted and has no audit entry left, while another payroll
\* keeps its own
C29_Testigo ==
    /\ res.op = "eliminar"
    /\ res.code = "True"
    /\ res.id_nomina \notin DOMAIN nomina
    /\ De(auditoria_nomina, res.id_nomina) = << >>
    /\ \E m \in DOMAIN nomina : De(auditoria_nomina, m) # << >>

\* The call that just ended was for an employee of a supported type whose
\* salario_base, tarifa_hora and porcentaje_comision are not negative, with
\* hours, overtime and sales that are not negative
LlamadaValida ==
    /\ TipoLlamada \in TiposConocidos
    /\ FichaLlamada.salario_base >= 0
    /\ FichaLlamada.tarifa_hora >= 0
    /\ FichaLlamada.porcentaje_comision >= 0
    /\ \A i \in 1..3 : res.resultados.entradas[i] >= 0

\* C30: for such a call calcular_nomina_completa never raises SALARIO_NEGATIVO:
\* it returns, the gross, the bonuses and the benefits are not negative, the
\* deductions are at most 6.522% of the gross (up to the rounding of the three
\* lines; 6522 cents for each 1,000.00 of gross, begun or whole), and the net is
\* not negative.
C30_NetoNuncaNegativo ==
    (res.op = "calcular_nomina_completa" /\ LlamadaValida)
    => LET r == res.resultados.retorno
       IN  /\ res.code = ""
           /\ r.salario_bruto >= 0
           /\ r.total_bonos >= 0
           /\ r.total_beneficios >= 0
           /\ r.total_deducciones >= 0
           /\ r.total_deducciones <= 6522 * (r.salario_bruto \div 100000 + 1) + 2
           /\ r.salario_neto >= 0

\* An hourly employee who worked no hour: the net is exactly zero and the call
\* returns all the same
C30_Testigo ==
    /\ res.op = "calcular_nomina_completa"
    /\ LlamadaValida
    /\ res.code = ""
    /\ TipoLlamada = "POR_HORAS"
    /\ res.resultados.retorno.salario_neto = 0
    /\ res.resultados.retorno.detalles_deducciones # << >>

====
